---- MODULE Spec2Model ----
(***************************************************************************)
(* Shelfie AI Studio: the application state container (App.tsx) and the    *)
(* views that drive it, as a state machine.  Each React event handler,     *)
(* timer callback and promise continuation is one action; the state of a   *)
(* component that is not mounted is kept at its useState defaults.         *)
(***************************************************************************)
EXTENDS Integers, Sequences, FiniteSets, TLC

\* ------------------------------ bounds ---------------------------------
MaxItems == 2        \* wardrobe items created in one run
MaxDates == 2        \* calendar days the user touches
MaxClock == 3        \* Date.now() stays below it: caps the confirmed saves
MaxSessions == 2     \* page loads
MaxTags == 2         \* style tags held by the profile
MaxPolls == 1        \* view-switch polls of the tour pending at once
MaxRequests == 2     \* trip-plan requests issued in a session
MaxUploads == 2      \* uploads started in a session
MaxFiles == 2        \* files in one upload
MaxPack == 2         \* lines in one section of a packing list
MaxTryOns == 3       \* image generations started in the fitting room

\* --------------------------- value domains -----------------------------
Views == {"closet", "studio", "plan", "trips", "fitting-room", "profile"}
CATEGORIES == {"Top", "Bottom", "Shoe", "Outerwear", "Accessory", "Other"}
InputCategories == {"Top", "Bottom"}
StudioTabs == {"closet", "studio", "plan"}
InputSlots == {"Top", "Bottom"}
WardrobeTabs == {"closet", "studio"}
Dates == 1..MaxDates
NoDate == 0
\* what the user types into the name field: nothing, a blank, a name
Names == {<<>>, <<" ">>, <<"a">>}

NoItem == [id |-> 0]
NoOutfit == [id |-> 0]
NoProfile ==
  [present |-> FALSE, onboardingCompleted |-> FALSE, facePhoto |-> FALSE,
   allowPersonalization |-> FALSE, stylePreferences |-> <<>>]
\* TripPackingCategories, and the list trip.packingList falls back to
PackCategories == {"clothes", "toiletries", "misc"}
EmptyPacking == [c \in PackCategories |-> <<>>]

NoTrip ==
  [id |-> 0, destination |-> "", startDate |-> 0, endDate |-> 0,
   dailyPlan |-> <<>>, packingList |-> EmptyPacking]

\* ViewAngle, and a TryOnResult that is null
Angles == {"front", "side", "back"}
NoResult ==
  [id |-> 0, frontUrl |-> 0, sideUrl |-> 0, backUrl |-> 0,
   criticVerdict |-> "none"]

SlotIds == {"Top", "Bottom", "Shoe", "Accessory"}
SlotOrder == <<"Top", "Bottom", "Shoe", "Accessory">>
SLOTS ==
  [Top |-> {"Top", "Outerwear"}, Bottom |-> {"Bottom"},
   Shoe |-> {"Shoe"}, Accessory |-> {"Accessory", "Other"}]

\* ------------------------------- state ---------------------------------
VARIABLES
  items,                 \* App: ClothingItem[]
  outfits,               \* App: Outfit[]
  schedule,              \* App: ScheduleEntry[]
  userProfile,           \* App: UserProfile | null
  currentView,           \* App: the view shown
  selectedItem,          \* App: item handed to the detail modal
  isModalOpen,           \* App: detail modal open
  editingOutfit,         \* App: outfit being edited | null
  planningDate,          \* App: date of planning mode | null
  showAvatarSetup,       \* App: avatar setup overlay shown
  itemToTryOn,           \* App: item carried into the fitting room
  editedItem,            \* ItemDetailModal: local copy being edited
  creator,               \* OutfitCreator: activeSlot, selections, isSaving, outfitName
  selectedDateForModal,  \* OutfitCalendar: day whose chooser is open
  quiz,                  \* OnboardingQuiz: step, formData, isSubmitting, timer
  tour,                  \* OnboardingTour: driver status, step, pending polls
  tourSeen,              \* localStorage 'shelfie_tour_seen'
  tourEnded,             \* history: onDestroyed of the tour has run
  session,               \* page loads so far
  trips,                 \* App: Trip[]
  selectedTrip,          \* App: trip shown in the detail view | null
  isTripModalOpen,       \* App: trip planner open
  planner,               \* TripPlannerModal: step, isLoading, form fields
  requests,              \* handleGenerate invocations and their outcome
  isUploading,           \* App: an upload is being analysed
  uploader,              \* ImageUploader: component state
  procs,                 \* processSingleFile / processBatchFiles invocations
  detail,                \* TripDetail: activeTab, localPackingList, inputs, hasChanges
  fitting,               \* FittingRoom: composition, status, result, angles
  tryons,                \* handleGenerate / handleChangeView invocations of FittingRoom
  nextId,                \* ids handed out by crypto.randomUUID()
  now,                   \* Date.now()
  lastOp                 \* outcome of the last handler, for those that report one

wardrobeVars == <<items, selectedItem, isModalOpen, editedItem>>
studioVars == <<outfits, schedule, editingOutfit, planningDate, creator,
                selectedDateForModal, now>>
profileVars == <<userProfile, showAvatarSetup, itemToTryOn>>
gateVars == <<quiz, tour, tourSeen, tourEnded, session>>
tripVars == <<trips, selectedTrip, isTripModalOpen, planner, requests>>
uploadVars == <<isUploading, uploader, procs>>
detailVars == <<detail>>
fittingVars == <<fitting, tryons>>

vars ==
  <<items, outfits, schedule, userProfile, currentView, selectedItem,
    isModalOpen, editingOutfit, planningDate, showAvatarSetup, itemToTryOn,
    editedItem, creator, selectedDateForModal, quiz, tour, tourSeen, tourEnded,
    session,
    trips, selectedTrip, isTripModalOpen, planner, requests, isUploading,
    uploader, procs, detail, fitting, tryons, nextId, now, lastOp>>

\* ----------------------------- helpers ---------------------------------
Range(s) == {s[k] : k \in DOMAIN s}

\* String.prototype.trim on the outfit name
RECURSIVE TrimLeft(_)
TrimLeft(s) ==
  IF s = <<>> THEN <<>>
  ELSE IF Head(s) = " " THEN TrimLeft(Tail(s)) ELSE s

RECURSIVE TrimRight(_)
TrimRight(s) ==
  IF s = <<>> THEN <<>>
  ELSE IF s[Len(s)] = " " THEN TrimRight(SubSeq(s, 1, Len(s) - 1)) ELSE s

trim(s) == TrimRight(TrimLeft(s))

EmptySelections == [s \in SlotIds |-> NoItem]

CreatorDefault ==
  [activeSlot |-> "Top", selections |-> EmptySelections,
   isSaving |-> FALSE, outfitName |-> <<>>]

\* Object.values(selections).filter(Boolean)
SelectedItems(sel) ==
  SelectSeq([k \in 1..4 |-> sel[SlotOrder[k]]], LAMBDA it : it.id # 0)

\* SLOTS.find(s => s.acceptedCategories.includes(category))
SlotFor(category) ==
  IF \E k \in 1..4 : category \in SLOTS[SlotOrder[k]]
  THEN SlotOrder[CHOOSE k \in 1..4 :
         /\ category \in SLOTS[SlotOrder[k]]
         /\ \A j \in 1..(k - 1) : category \notin SLOTS[SlotOrder[j]]]
  ELSE "none"

\* initialData.items.forEach(...): map an outfit's items back to the slots
RECURSIVE MapToSlots(_, _)
MapToSlots(its, sel) ==
  IF its = <<>> THEN sel
  ELSE LET slot == SlotFor(Head(its).category)
       IN  MapToSlots(Tail(its),
             IF slot # "none" /\ sel[slot].id = 0
             THEN [sel EXCEPT ![slot] = Head(its)] ELSE sel)

\* the useEffect on [initialData] of OutfitCreator
InitialDataEffect(c, initialData) ==
  IF initialData.id # 0
  THEN [c EXCEPT !.outfitName = initialData.name,
                 !.selections = MapToSlots(initialData.items, EmptySelections)]
  ELSE [c EXCEPT !.selections = EmptySelections, !.outfitName = <<>>]

\* OutfitCreator state after a render in which the view becomes v and the
\* initialData prop becomes ed: the component only exists under 'studio'
CreatorAfter(v, ed) ==
  IF v # "studio" THEN CreatorDefault
  ELSE IF currentView # "studio" THEN InitialDataEffect(CreatorDefault, ed)
  ELSE IF ed # editingOutfit THEN InitialDataEffect(creator, ed)
  ELSE creator

\* the useState defaults of ImageUploader
UploaderDefault ==
  [isAnalyzing |-> FALSE, isBatchProcessing |-> FALSE, batchProgress |-> 0,
   batchTotal |-> 0, batchSuccessCount |-> 0]

\* ImageUploader only exists under 'closet'
UploaderAfter(v) ==
  IF v = "closet" /\ currentView = "closet" THEN uploader ELSE UploaderDefault

\* an upload whose uploader went away keeps running, its setState calls
\* reaching nothing
ProcsAfter(v) ==
  [p \in DOMAIN procs |->
     [procs[p] EXCEPT !.live = @ /\ v = "closet" /\ currentView = "closet"]]

\* the useState defaults of TripDetail for a trip; an input holds its text
\* as a sequence of characters
DetailDefault(trip) ==
  [activeTab |-> "lookbook", localPackingList |-> trip.packingList,
   newItemInputs |-> [c \in PackCategories |-> <<>>], hasChanges |-> FALSE]

\* the useEffect on [trip] of TripDetail
TripEffect(d, trip) ==
  [d EXCEPT !.localPackingList = trip.packingList, !.hasChanges = FALSE]

\* TripDetail only exists under 'trips' with a trip selected; its state after
\* a render in which the view becomes v and the trip prop becomes trip
DetailAfter(v, trip) ==
  IF ~(v = "trips" /\ trip.id # 0) THEN DetailDefault(NoTrip)
  ELSE IF ~(currentView = "trips" /\ selectedTrip.id # 0)
       THEN DetailDefault(trip)
       ELSE IF trip # selectedTrip THEN TripEffect(detail, trip) ELSE detail

\* the useState defaults of FittingRoom
FittingDefault ==
  [composition |-> [Top |-> NoItem, Bottom |-> NoItem, Shoe |-> NoItem],
   status |-> "idle", loadingStep |-> 0, result |-> NoResult,
   activeView |-> "front", generatingAngle |-> "none"]

\* wardrobe.filter(...)[0] of the mount effect, null when there is none
FirstOf(categories) ==
  IF \E k \in DOMAIN items : items[k].category \in categories
  THEN items[CHOOSE k \in DOMAIN items :
         /\ items[k].category \in categories
         /\ \A j \in 1..(k - 1) : items[j].category \notin categories]
  ELSE NoItem

\* the mount effect of FittingRoom: the slots are prefilled
AutoSelect(initialItem) ==
  IF initialItem.id = 0
  THEN [Top |-> FirstOf({"Top", "Outerwear"}), Bottom |-> FirstOf({"Bottom"}),
        Shoe |-> FirstOf({"Shoe"})]
  ELSE [Top |-> IF initialItem.category \in {"Top", "Outerwear"}
                THEN initialItem ELSE NoItem,
        Bottom |-> IF initialItem.category = "Bottom"
                   THEN initialItem ELSE NoItem,
        Shoe |-> IF initialItem.category = "Shoe"
                 THEN initialItem ELSE NoItem]

\* FittingRoom only exists under 'fitting-room'
FittingAfter(v, initialItem) ==
  IF v # "fitting-room" THEN FittingDefault
  ELSE IF currentView # "fitting-room"
       THEN [FittingDefault EXCEPT !.composition = AutoSelect(initialItem)]
       ELSE fitting

\* a generation whose FittingRoom went away keeps running, its setState
\* calls reaching nothing
TryonsAfter(v) ==
  [r \in DOMAIN tryons |->
     [tryons[r] EXCEPT
        !.live = @ /\ v = "fitting-room" /\ currentView = "fitting-room"]]

\* OutfitCalendar only exists under 'plan'
CalendarAfter(v) == IF v = "plan" THEN selectedDateForModal ELSE NoDate

\* one render after the handler's setState calls: the view becomes v,
\* editingOutfit becomes ed and itemToTryOn becomes item
RenderTryOn(v, ed, item) ==
  /\ currentView' = v
  /\ editingOutfit' = ed
  /\ creator' = CreatorAfter(v, ed)
  /\ selectedDateForModal' = CalendarAfter(v)
  /\ uploader' = UploaderAfter(v)
  /\ procs' = ProcsAfter(v)
  /\ detail' = DetailAfter(v, selectedTrip)
  /\ fitting' = FittingAfter(v, item)
  /\ tryons' = TryonsAfter(v)

Render(v, ed) == RenderTryOn(v, ed, itemToTryOn)

\* ------------------------ what is on the screen ------------------------
\* variant: the early return of the gate is absent
Gate_Open == TRUE

\* App.tsx 208: below the gate nothing but the quiz is rendered
Gate == userProfile.present

ItemModalShown == Gate /\ isModalOpen /\ editedItem.id # 0
SaveDialogShown == Gate /\ currentView = "studio" /\ creator.isSaving
DayChooserShown == Gate /\ currentView = "plan" /\ selectedDateForModal # NoDate
AvatarSetupShown == Gate /\ showAvatarSetup
TripPlannerShown == Gate /\ isTripModalOpen
FittingRoomShown == Gate /\ currentView = "fitting-room"

\* a fixed inset-0 layer lies over the page and the navigation bars
OverlayShown ==
  \/ ItemModalShown
  \/ SaveDialogShown
  \/ DayChooserShown
  \/ AvatarSetupShown
  \/ TripPlannerShown
  \/ FittingRoomShown

PageClickable == Gate /\ ~OverlayShown

\* --------------------------- App.tsx: lists ----------------------------
\* variant: the new entry is appended without filtering the old one out
handleUpdateSchedule_NoFilter(prev, entry) == prev \o <<entry>>

\* setSchedule(prev => [...prev.filter(s => s.date !== entry.date), entry])
handleUpdateSchedule(prev, entry) ==
  SelectSeq(prev, LAMBDA s : s.date # entry.date) \o <<entry>>

\* variant: removing one date clears the whole schedule
handleRemoveSchedule_All(prev, date) == <<>>

\* setSchedule(prev => prev.filter(s => s.date !== date))
handleRemoveSchedule(prev, date) ==
  SelectSeq(prev, LAMBDA s : s.date # date)

\* variant: an outfit with a new id is not put into the list
SaveOutfitUpdater_NoInsert(prev, outfitToSave) ==
  [k \in DOMAIN prev |->
     IF prev[k].id = outfitToSave.id THEN outfitToSave ELSE prev[k]]

\* the setOutfits updater of handleSaveOutfit
SaveOutfitUpdater(prev, outfitToSave) ==
  IF \E k \in DOMAIN prev : prev[k].id = outfitToSave.id
  THEN [k \in DOMAIN prev |->
          IF prev[k].id = outfitToSave.id THEN outfitToSave ELSE prev[k]]
  ELSE <<outfitToSave>> \o prev

\* the setItems updater of handleSaveItem
SaveItemUpdater(prev, itemToSave) ==
  IF \E k \in DOMAIN prev : prev[k].id = itemToSave.id
  THEN [k \in DOMAIN prev |->
          IF prev[k].id = itemToSave.id THEN itemToSave ELSE prev[k]]
  ELSE <<itemToSave>> \o prev

\* the setItems updater of handleDeleteItem
DeleteItemUpdater(prev, id) == SelectSeq(prev, LAMBDA i : i.id # id)

\* OutfitCalendar.getOutfitForDate
getOutfitForDate(date) ==
  IF \E k \in DOMAIN schedule : schedule[k].date = date
  THEN LET entry == schedule[CHOOSE k \in DOMAIN schedule :
                      /\ schedule[k].date = date
                      /\ \A j \in 1..(k - 1) : schedule[j].date # date]
       IN  IF \E k \in DOMAIN outfits : outfits[k].id = entry.outfitId
           THEN outfits[CHOOSE k \in DOMAIN outfits :
                  /\ outfits[k].id = entry.outfitId
                  /\ \A j \in 1..(k - 1) : outfits[j].id # entry.outfitId]
           ELSE NoOutfit
  ELSE NoOutfit

\* ------------------------- navigation (App.tsx) ------------------------
\* a tab other than Fitting Room: setCurrentView(tab.id)
NavTab(v) ==
  /\ UNCHANGED <<gateVars, tripVars, isUploading>>
  /\ PageClickable
  /\ v \in Views \ {"fitting-room"}
  /\ Render(v, editingOutfit)
  /\ lastOp' = "other"
  /\ UNCHANGED <<wardrobeVars, profileVars, outfits, schedule, planningDate,
                 nextId, now>>

\* handleNavigateToTryOn(item?) from the Fitting Room tab or the item modal
NavigateToTryOn(item) ==
  IF ~userProfile.present
  THEN /\ UNCHANGED <<itemToTryOn, showAvatarSetup>>
       /\ Render(currentView, editingOutfit)
  ELSE IF ~userProfile.facePhoto
       THEN /\ itemToTryOn' = item
            /\ showAvatarSetup' = TRUE
            /\ RenderTryOn(currentView, editingOutfit, item)
       ELSE /\ itemToTryOn' = item
            /\ UNCHANGED showAvatarSetup
            /\ RenderTryOn("fitting-room", editingOutfit, item)

NavFittingRoomTab ==
  /\ UNCHANGED <<gateVars, tripVars, isUploading>>
  /\ PageClickable
  /\ NavigateToTryOn(NoItem)
  /\ lastOp' = "other"
  /\ UNCHANGED <<wardrobeVars, userProfile, outfits, schedule, planningDate,
                 nextId, now>>

\* FittingRoom onClose
FittingRoomClose ==
  /\ UNCHANGED <<gateVars, tripVars, isUploading>>
  /\ FittingRoomShown
  /\ ~AvatarSetupShown
  /\ Render("closet", editingOutfit)
  /\ lastOp' = "other"
  /\ UNCHANGED <<wardrobeVars, profileVars, outfits, schedule, planningDate,
                 nextId, now>>

\* AvatarSetup.handleSave -> handleSaveProfile, with a selfie chosen
AvatarSetupSave ==
  /\ UNCHANGED <<gateVars, tripVars, isUploading>>
  /\ AvatarSetupShown
  /\ userProfile' = [userProfile EXCEPT !.facePhoto = TRUE]
  /\ showAvatarSetup' = FALSE
  /\ IF currentView = "fitting-room" \/ itemToTryOn.id # 0
     THEN Render("fitting-room", editingOutfit)
     ELSE Render(currentView, editingOutfit)
  /\ lastOp' = "other"
  /\ UNCHANGED <<wardrobeVars, itemToTryOn, outfits, schedule, planningDate,
                 nextId, now>>

\* AvatarSetup onCancel
AvatarSetupCancel ==
  /\ UNCHANGED <<gateVars, tripVars, uploadVars>>
  /\ AvatarSetupShown
  /\ showAvatarSetup' = FALSE
  /\ lastOp' = "other"
  /\ UNCHANGED <<wardrobeVars, studioVars, userProfile, itemToTryOn,
                 currentView, nextId>>
  /\ UNCHANGED <<detailVars, fittingVars>>

\* ------------------- wardrobe and item detail modal --------------------
\* the useEffect on [item] of ItemDetailModal: setEditedItem(item)
EditedItemAfter(item) == IF item # selectedItem THEN item ELSE editedItem

\* createItemFromAnalysis: a fresh item as the uploader builds it
NewItems ==
  {[id |-> nextId.item, category |-> c] : c \in InputCategories}

\* handleAnalysisComplete(newItem), called by the uploader's single path
handleAnalysisComplete(newItem) ==
  /\ Gate
  /\ nextId.item <= MaxItems
  /\ newItem \in NewItems
  /\ selectedItem' = newItem
  /\ isModalOpen' = TRUE
  /\ editedItem' = EditedItemAfter(newItem)
  /\ isUploading' = FALSE
  /\ nextId' = [nextId EXCEPT !.item = @ + 1]
  /\ lastOp' = "other"
  /\ UNCHANGED <<items, studioVars, profileVars, currentView, uploader, procs,
                 gateVars, tripVars>>
  /\ UNCHANGED <<detailVars, fittingVars>>

\* variant: the batch item is not put into the list
BatchItemUpdater_Drop(prev, newItem) == prev

\* setItems(prev => [newItem, ...prev])
BatchItemUpdater(prev, newItem) == <<newItem>> \o prev

\* handleBatchItem(newItem), called by the uploader's batch path
handleBatchItem(newItem) ==
  /\ UNCHANGED <<gateVars, tripVars, uploadVars>>
  /\ Gate
  /\ nextId.item <= MaxItems
  /\ newItem \in NewItems
  /\ items' = BatchItemUpdater(items, newItem)
  /\ nextId' = [nextId EXCEPT !.item = @ + 1]
  /\ lastOp' = "other"
  /\ UNCHANGED <<selectedItem, isModalOpen, editedItem, studioVars,
                 profileVars, currentView>>
  /\ UNCHANGED <<detailVars, fittingVars>>

\* WardrobeGallery onItemClick -> handleOpenItem(item)
handleOpenItem(item) ==
  /\ UNCHANGED <<gateVars, tripVars, uploadVars>>
  /\ PageClickable
  /\ currentView = "closet"
  /\ item \in Range(items)
  /\ selectedItem' = item
  /\ isModalOpen' = TRUE
  /\ editedItem' = EditedItemAfter(item)
  /\ lastOp' = "other"
  /\ UNCHANGED <<items, studioVars, profileVars, currentView, nextId>>
  /\ UNCHANGED <<detailVars, fittingVars>>

\* the category select of the modal: setEditedItem({...editedItem, category})
ModalEditCategory(c) ==
  /\ UNCHANGED <<gateVars, tripVars, uploadVars>>
  /\ ItemModalShown
  /\ c \in InputCategories
  /\ c # editedItem.category
  /\ editedItem' = [editedItem EXCEPT !.category = c]
  /\ lastOp' = "other"
  /\ UNCHANGED <<items, selectedItem, isModalOpen, studioVars, profileVars,
                 currentView, nextId>>
  /\ UNCHANGED <<detailVars, fittingVars>>

\* variant: the saved item is also written into the outfits that hold it
handleSaveItem_Propagate ==
  /\ UNCHANGED <<gateVars, tripVars, uploadVars>>
  /\ ItemModalShown
  /\ items' = SaveItemUpdater(items, editedItem)
  /\ outfits' = [k \in DOMAIN outfits |->
       [outfits[k] EXCEPT !.items = [j \in DOMAIN outfits[k].items |->
          IF outfits[k].items[j].id = editedItem.id
          THEN editedItem ELSE outfits[k].items[j]]]]
  /\ isModalOpen' = FALSE
  /\ lastOp' = "handleSaveItem"
  /\ UNCHANGED <<selectedItem, editedItem, schedule, editingOutfit,
                 planningDate, creator, selectedDateForModal, now,
                 profileVars, currentView, nextId>>
  /\ UNCHANGED <<detailVars, fittingVars>>

\* ItemDetailModal.handleSave: onSave(editedItem) -> handleSaveItem; onClose()
handleSaveItem ==
  /\ UNCHANGED <<gateVars, tripVars, uploadVars>>
  /\ ItemModalShown
  /\ items' = SaveItemUpdater(items, editedItem)
  /\ isModalOpen' = FALSE
  /\ lastOp' = "handleSaveItem"
  /\ UNCHANGED <<selectedItem, editedItem, studioVars, profileVars,
                 currentView, nextId>>
  /\ UNCHANGED <<detailVars, fittingVars>>

\* the trash button of the modal: onDelete(editedItem.id) -> handleDeleteItem
handleDeleteItem ==
  /\ UNCHANGED <<gateVars, tripVars, uploadVars>>
  /\ ItemModalShown
  /\ items' = DeleteItemUpdater(items, editedItem.id)
  /\ isModalOpen' = FALSE
  /\ selectedItem' = NoItem
  /\ editedItem' = EditedItemAfter(NoItem)
  /\ lastOp' = "handleDeleteItem"
  /\ UNCHANGED <<studioVars, profileVars, currentView, nextId>>
  /\ UNCHANGED <<detailVars, fittingVars>>

\* backdrop, X and Cancel of the modal: onClose
ModalClose ==
  /\ UNCHANGED <<gateVars, tripVars, uploadVars>>
  /\ ItemModalShown
  /\ isModalOpen' = FALSE
  /\ lastOp' = "other"
  /\ UNCHANGED <<items, selectedItem, editedItem, studioVars, profileVars,
                 currentView, nextId>>
  /\ UNCHANGED <<detailVars, fittingVars>>

\* ItemDetailModal.handleTryOnClick: onTryOn(editedItem); onClose()
ModalTryOn ==
  /\ UNCHANGED <<gateVars, tripVars, isUploading>>
  /\ ItemModalShown
  /\ NavigateToTryOn(editedItem)
  /\ isModalOpen' = FALSE
  /\ lastOp' = "other"
  /\ UNCHANGED <<items, selectedItem, editedItem, userProfile, outfits,
                 schedule, planningDate, nextId, now>>

\* --------------------------- OutfitCreator -----------------------------
StudioCanvasClickable == PageClickable /\ currentView = "studio"

\* clicking a slot: setActiveSlot(slot.id)
setActiveSlot(slot) ==
  /\ UNCHANGED <<gateVars, tripVars, uploadVars>>
  /\ StudioCanvasClickable
  /\ slot \in SlotIds
  /\ slot # creator.activeSlot
  /\ creator' = [creator EXCEPT !.activeSlot = slot]
  /\ lastOp' = "other"
  /\ UNCHANGED <<wardrobeVars, profileVars, outfits, schedule, editingOutfit,
                 planningDate, selectedDateForModal, currentView, nextId, now>>
  /\ UNCHANGED <<detailVars, fittingVars>>

\* filteredItems: the wardrobe items the active slot accepts
filteredItems ==
  SelectSeq(items, LAMBDA it : it.category \in SLOTS[creator.activeSlot])

handleSelectItem(item) ==
  /\ UNCHANGED <<gateVars, tripVars, uploadVars>>
  /\ StudioCanvasClickable
  /\ item \in Range(filteredItems)
  /\ creator' = [creator EXCEPT !.selections[creator.activeSlot] = item]
  /\ lastOp' = "other"
  /\ UNCHANGED <<wardrobeVars, profileVars, outfits, schedule, editingOutfit,
                 planningDate, selectedDateForModal, currentView, nextId, now>>
  /\ UNCHANGED <<detailVars, fittingVars>>

\* the X on a filled slot
handleClearSlot(slot) ==
  /\ UNCHANGED <<gateVars, tripVars, uploadVars>>
  /\ StudioCanvasClickable
  /\ slot \in SlotIds
  /\ creator.selections[slot].id # 0
  /\ creator' = [creator EXCEPT !.selections[slot] = NoItem]
  /\ lastOp' = "other"
  /\ UNCHANGED <<wardrobeVars, profileVars, outfits, schedule, editingOutfit,
                 planningDate, selectedDateForModal, currentView, nextId, now>>
  /\ UNCHANGED <<detailVars, fittingVars>>

\* variant: the dialog opens whatever the slots hold
CanOpenSaveDialog_Always(sel) == TRUE

\* the guard of handleSave: no dialog without a filled slot
CanOpenSaveDialog(sel) == Len(SelectedItems(sel)) # 0

\* Save Look / Update Look / Save & Schedule: opens the naming dialog
handleSave ==
  /\ UNCHANGED <<gateVars, tripVars, uploadVars>>
  /\ StudioCanvasClickable
  /\ creator' = IF CanOpenSaveDialog(creator.selections)
                THEN [creator EXCEPT !.isSaving = TRUE] ELSE creator
  /\ lastOp' = IF CanOpenSaveDialog(creator.selections)
               THEN "other" ELSE "handleSave_ignored"
  /\ UNCHANGED <<wardrobeVars, profileVars, outfits, schedule, editingOutfit,
                 planningDate, selectedDateForModal, currentView, nextId, now>>
  /\ UNCHANGED <<detailVars, fittingVars>>

\* the name field of the dialog
setOutfitName(name) ==
  /\ UNCHANGED <<gateVars, tripVars, uploadVars>>
  /\ SaveDialogShown
  /\ name \in Names
  /\ name # creator.outfitName
  /\ creator' = [creator EXCEPT !.outfitName = name]
  /\ lastOp' = "other"
  /\ UNCHANGED <<wardrobeVars, profileVars, outfits, schedule, editingOutfit,
                 planningDate, selectedDateForModal, currentView, nextId, now>>
  /\ UNCHANGED <<detailVars, fittingVars>>

\* Cancel of the dialog: setIsSaving(false)
CancelSaveDialog ==
  /\ UNCHANGED <<gateVars, tripVars, uploadVars>>
  /\ SaveDialogShown
  /\ creator' = [creator EXCEPT !.isSaving = FALSE]
  /\ lastOp' = "other"
  /\ UNCHANGED <<wardrobeVars, profileVars, outfits, schedule, editingOutfit,
                 planningDate, selectedDateForModal, currentView, nextId, now>>
  /\ UNCHANGED <<detailVars, fittingVars>>

\* variant: the name is tested without trim()
NameRejected_NoTrim(name) == name = <<>>

\* the early return of confirmSave (and the disabled flag of its button)
NameRejected(name) == trim(name) = <<>>

\* variant: a fresh id and timestamp also when editing
NewOutfit_AlwaysFresh(initialData) ==
  [id |-> nextId.outfit, name |-> creator.outfitName,
   items |-> SelectedItems(creator.selections), createdAt |-> now]

\* the Outfit record confirmSave builds
NewOutfit(initialData) ==
  [id |-> IF initialData.id # 0 THEN initialData.id ELSE nextId.outfit,
   name |-> creator.outfitName,
   items |-> SelectedItems(creator.selections),
   createdAt |-> IF initialData.id # 0 THEN initialData.createdAt ELSE now]

\* confirmSave with onSaveOutfit = handleSaveOutfit inlined
confirmSave ==
  /\ UNCHANGED <<gateVars, tripVars, uploadVars>>
  /\ SaveDialogShown
  /\ IF NameRejected(creator.outfitName)
     THEN /\ lastOp' = "confirmSave_rejected"
          /\ UNCHANGED <<wardrobeVars, profileVars, studioVars, currentView,
                         nextId>>
     ELSE LET outfitToSave == NewOutfit(editingOutfit)
              v == IF planningDate # NoDate THEN "plan" ELSE currentView
              afterSave ==
                IF editingOutfit.id = 0
                THEN [creator EXCEPT !.selections = EmptySelections,
                                     !.outfitName = <<>>, !.isSaving = FALSE]
                ELSE [creator EXCEPT !.isSaving = FALSE]
          IN  /\ now < MaxClock
              /\ outfits' = SaveOutfitUpdater(outfits, outfitToSave)
              /\ editingOutfit' = NoOutfit
              /\ schedule' =
                   IF planningDate # NoDate
                   THEN handleUpdateSchedule(schedule,
                          [date |-> planningDate, outfitId |-> outfitToSave.id])
                   ELSE schedule
              /\ planningDate' = NoDate
              /\ currentView' = v
              /\ creator' =
                   IF v # "studio" THEN CreatorDefault
                   ELSE IF editingOutfit.id # 0
                        THEN InitialDataEffect(afterSave, NoOutfit)
                        ELSE afterSave
              /\ selectedDateForModal' = CalendarAfter(v)
              /\ nextId' = IF editingOutfit.id = 0
                           THEN [nextId EXCEPT !.outfit = @ + 1] ELSE nextId
              /\ now' = now + 1
              /\ lastOp' = IF editingOutfit.id # 0 THEN "confirmSave_update"
                           ELSE "confirmSave_create"
              /\ UNCHANGED <<wardrobeVars, profileVars>>
  /\ UNCHANGED <<detailVars, fittingVars>>

\* Clear / Cancel Edit / Cancel Plan: handleClearAll -> handleCancelStudio
handleCancelStudio ==
  /\ UNCHANGED <<gateVars, tripVars, isUploading>>
  /\ StudioCanvasClickable
  /\ IF planningDate # NoDate
     THEN /\ planningDate' = NoDate
          /\ Render("plan", editingOutfit)
     ELSE /\ UNCHANGED planningDate
          /\ Render(currentView, NoOutfit)
  /\ lastOp' = "other"
  /\ UNCHANGED <<wardrobeVars, profileVars, outfits, schedule, nextId, now>>

\* --------------------------- OutfitCalendar ----------------------------
CalendarClickable == PageClickable /\ currentView = "plan"

\* activePlan: the outfit scheduled on the day whose chooser is open
activePlan ==
  IF selectedDateForModal # NoDate
  THEN getOutfitForDate(selectedDateForModal) ELSE NoOutfit

handleDayClick(date) ==
  /\ UNCHANGED <<gateVars, tripVars, uploadVars>>
  /\ CalendarClickable
  /\ date \in Dates
  /\ selectedDateForModal' = date
  /\ lastOp' = "other"
  /\ UNCHANGED <<wardrobeVars, profileVars, outfits, schedule, editingOutfit,
                 planningDate, creator, currentView, nextId, now>>
  /\ UNCHANGED <<detailVars, fittingVars>>

\* backdrop and Close of the chooser
CloseDayChooser ==
  /\ UNCHANGED <<gateVars, tripVars, uploadVars>>
  /\ DayChooserShown
  /\ selectedDateForModal' = NoDate
  /\ lastOp' = "other"
  /\ UNCHANGED <<wardrobeVars, profileVars, outfits, schedule, editingOutfit,
                 planningDate, creator, currentView, nextId, now>>
  /\ UNCHANGED <<detailVars, fittingVars>>

\* variant: the entry is stored without the outfit's id
handleSelectOutfit_NoId(outfit) ==
  /\ UNCHANGED <<gateVars, tripVars, uploadVars>>
  /\ DayChooserShown
  /\ activePlan.id = 0
  /\ outfit \in Range(outfits)
  /\ schedule' = handleUpdateSchedule(schedule,
                   [date |-> selectedDateForModal, outfitId |-> 0])
  /\ selectedDateForModal' = NoDate
  /\ lastOp' = "other"
  /\ UNCHANGED <<wardrobeVars, profileVars, outfits, editingOutfit,
                 planningDate, creator, currentView, nextId, now>>
  /\ UNCHANGED <<detailVars, fittingVars>>

\* a saved outfit in the chooser of a free day
handleSelectOutfit(outfit) ==
  /\ UNCHANGED <<gateVars, tripVars, uploadVars>>
  /\ DayChooserShown
  /\ activePlan.id = 0
  /\ outfit \in Range(outfits)
  /\ schedule' = handleUpdateSchedule(schedule,
                   [date |-> selectedDateForModal, outfitId |-> outfit.id])
  /\ selectedDateForModal' = NoDate
  /\ lastOp' = "other"
  /\ UNCHANGED <<wardrobeVars, profileVars, outfits, editingOutfit,
                 planningDate, creator, currentView, nextId, now>>
  /\ UNCHANGED <<detailVars, fittingVars>>

\* the places that show Edit / Remove for a day: its week cell, or the
\* chooser opened on it
DayActionsOffered(date) ==
  /\ getOutfitForDate(date).id # 0
  /\ \/ CalendarClickable
     \/ DayChooserShown /\ selectedDateForModal = date

handleRemoveOutfit(date) ==
  /\ UNCHANGED <<gateVars, tripVars, uploadVars>>
  /\ date \in Dates
  /\ DayActionsOffered(date)
  /\ schedule' = handleRemoveSchedule(schedule, date)
  /\ selectedDateForModal' = NoDate
  /\ lastOp' = "other"
  /\ UNCHANGED <<wardrobeVars, profileVars, outfits, editingOutfit,
                 planningDate, creator, currentView, nextId, now>>
  /\ UNCHANGED <<detailVars, fittingVars>>

\* handleTriggerEdit -> handleEditOutfit(outfit)
handleEditOutfit(date) ==
  /\ UNCHANGED <<gateVars, tripVars, isUploading>>
  /\ date \in Dates
  /\ DayActionsOffered(date)
  /\ Render("studio", getOutfitForDate(date))
  /\ lastOp' = "other"
  /\ UNCHANGED <<wardrobeVars, profileVars, outfits, schedule, planningDate,
                 nextId, now>>

\* handleCreateNew -> handleStartPlanning(date)
handleStartPlanning ==
  /\ UNCHANGED <<gateVars, tripVars, isUploading>>
  /\ DayChooserShown
  /\ activePlan.id = 0
  /\ planningDate' = selectedDateForModal
  /\ Render("studio", NoOutfit)
  /\ lastOp' = "other"
  /\ UNCHANGED <<wardrobeVars, profileVars, outfits, schedule, nextId, now>>

\* ------------------------- OnboardingQuiz ------------------------------
STYLE_CHIPS == {"Minimalist"}
QuizNames == {"", "Ada"}

\* the useState defaults of OnboardingQuiz
QuizDefault ==
  [step |-> 1, isSubmitting |-> FALSE, timer |-> FALSE,
   formData |-> [name |-> "", stylePreferences |-> <<>>,
                 allowPersonalization |-> TRUE, onboardingCompleted |-> FALSE]]

QuizShown == ~Gate

\* the name field of step 1
QuizSetName(n) ==
  /\ QuizShown
  /\ quiz.step = 1
  /\ n \in QuizNames
  /\ n # quiz.formData.name
  /\ quiz' = [quiz EXCEPT !.formData.name = n]
  /\ lastOp' = "other"
  /\ UNCHANGED <<wardrobeVars, studioVars, profileVars, currentView, tour,
                 tourSeen, tourEnded, session, tripVars, uploadVars,
                 nextId>>
  /\ UNCHANGED <<detailVars, fittingVars>>

\* toggleStyle(style) on step 3
toggleStyle(style) ==
  /\ QuizShown
  /\ quiz.step = 3
  /\ style \in STYLE_CHIPS
  /\ quiz' = [quiz EXCEPT !.formData.stylePreferences =
       IF style \in Range(@) THEN SelectSeq(@, LAMBDA t : t # style)
       ELSE Append(@, style)]
  /\ lastOp' = "other"
  /\ UNCHANGED <<wardrobeVars, studioVars, profileVars, currentView, tour,
                 tourSeen, tourEnded, session, tripVars, uploadVars,
                 nextId>>
  /\ UNCHANGED <<detailVars, fittingVars>>

\* the disabled flags of the Continue buttons
QuizNextEnabled ==
  \/ quiz.step = 1 /\ quiz.formData.name # ""
  \/ quiz.step = 2
  \/ quiz.step = 3 /\ Len(quiz.formData.stylePreferences) # 0

\* handleNext; reaching step 4 runs handleComplete from the effect on [step]
QuizNext ==
  /\ QuizShown
  /\ QuizNextEnabled
  /\ quiz' = IF quiz.step = 3
             THEN [quiz EXCEPT !.step = 4, !.isSubmitting = TRUE, !.timer = TRUE]
             ELSE [quiz EXCEPT !.step = @ + 1]
  /\ lastOp' = "other"
  /\ UNCHANGED <<wardrobeVars, studioVars, profileVars, currentView, tour,
                 tourSeen, tourEnded, session, tripVars, uploadVars,
                 nextId>>
  /\ UNCHANGED <<detailVars, fittingVars>>

\* { ...formData, onboardingCompleted: true }
QuizProfile(formData) ==
  [present |-> TRUE, onboardingCompleted |-> TRUE, facePhoto |-> FALSE,
   allowPersonalization |-> formData.allowPersonalization,
   stylePreferences |-> formData.stylePreferences]

\* the effect of OnboardingTour when it mounts
TourOnMount ==
  IF tourSeen THEN [status |-> "off", step |-> 0, polls |-> <<>>]
  ELSE [status |-> "active", step |-> 0, polls |-> <<>>]

TourUnmounted == [status |-> "unmounted", step |-> 0, polls |-> <<>>]

\* the 2 s timer of handleComplete: onComplete -> handleOnboardingComplete;
\* the gate opens, the quiz goes away and the tour mounts
QuizTimerFires ==
  /\ quiz.timer
  /\ userProfile' = QuizProfile(quiz.formData)
  /\ quiz' = QuizDefault
  /\ tour' = TourOnMount
  /\ lastOp' = "handleOnboardingComplete"
  /\ UNCHANGED <<wardrobeVars, studioVars, showAvatarSetup, itemToTryOn,
                 currentView, tourSeen, tourEnded, session, tripVars,
                 uploadVars, nextId>>
  /\ UNCHANGED <<detailVars, fittingVars>>

\* ---------------------------- StyleProfile -----------------------------
ProfileViewClickable == PageClickable /\ currentView = "profile"

\* handleToggleAI -> onUpdateProfile({...profile, allowPersonalization})
handleToggleAI ==
  /\ ProfileViewClickable
  /\ userProfile' = [userProfile EXCEPT !.allowPersonalization = ~@]
  /\ lastOp' = "other"
  /\ UNCHANGED <<wardrobeVars, studioVars, showAvatarSetup, itemToTryOn,
                 currentView, gateVars, tripVars, uploadVars, nextId>>
  /\ UNCHANGED <<detailVars, fittingVars>>

\* StyleProfile.handleAddTag
handleAddTag(tag) ==
  /\ ProfileViewClickable
  /\ tag \in STYLE_CHIPS
  /\ Len(userProfile.stylePreferences) < MaxTags
  /\ userProfile' = [userProfile EXCEPT !.stylePreferences = Append(@, tag)]
  /\ lastOp' = "other"
  /\ UNCHANGED <<wardrobeVars, studioVars, showAvatarSetup, itemToTryOn,
                 currentView, gateVars, tripVars, uploadVars, nextId>>
  /\ UNCHANGED <<detailVars, fittingVars>>

\* StyleProfile.removeTag
removeTag(tag) ==
  /\ ProfileViewClickable
  /\ tag \in Range(userProfile.stylePreferences)
  /\ userProfile' = [userProfile EXCEPT !.stylePreferences =
                       SelectSeq(@, LAMBDA t : t # tag)]
  /\ lastOp' = "other"
  /\ UNCHANGED <<wardrobeVars, studioVars, showAvatarSetup, itemToTryOn,
                 currentView, gateVars, tripVars, uploadVars, nextId>>
  /\ UNCHANGED <<detailVars, fittingVars>>
\* ---------------------------- OnboardingTour ----------------------------
\* steps[k+1] is step k of the tour: the view shown with it
TourViews == <<"closet", "closet", "studio", "plan", "trips", "fitting-room">>
LastTourStep == Len(TourViews) - 1

TourActive == Gate /\ tour.status = "active"

\* setCurrentView as handed to the tour: the view changes, nothing else
TourSetView(v) == Render(v, editingOutfit)

\* onNextClick of the step shown: moveNext at once on step 0, driveToView on
\* steps 1..4; the last step has no onNextClick and its button ends the tour
TourNextClick ==
  /\ TourActive
  /\ tour.step < LastTourStep
  /\ IF tour.step = 0
     THEN /\ tour' = [tour EXCEPT !.step = 1]
          /\ UNCHANGED <<currentView, editingOutfit, creator,
                         selectedDateForModal, uploader, procs, detailVars,
                         fittingVars>>
     ELSE /\ Len(tour.polls) < MaxPolls
          /\ tour' = [tour EXCEPT !.polls = Append(@, "next")]
          /\ TourSetView(TourViews[tour.step + 2])
  /\ lastOp' = "other"
  /\ UNCHANGED <<wardrobeVars, profileVars, outfits, schedule, planningDate,
                 now, quiz, tourSeen, tourEnded, session, tripVars,
                 isUploading, nextId>>

\* onPrevClick: movePrevious at once on step 1, driveToView on steps 2..5
TourPrevClick ==
  /\ TourActive
  /\ tour.step > 0
  /\ IF tour.step = 1
     THEN /\ tour' = [tour EXCEPT !.step = 0]
          /\ UNCHANGED <<currentView, editingOutfit, creator,
                         selectedDateForModal, uploader, procs, detailVars,
                         fittingVars>>
     ELSE /\ Len(tour.polls) < MaxPolls
          /\ tour' = [tour EXCEPT !.polls = Append(@, "prev")]
          /\ TourSetView(TourViews[tour.step])
  /\ lastOp' = "other"
  /\ UNCHANGED <<wardrobeVars, profileVars, outfits, schedule, planningDate,
                 now, quiz, tourSeen, tourEnded, session, tripVars,
                 isUploading, nextId>>

\* the driver after moveNext / movePrevious; moving past either end ends it
TourMoved(action) ==
  IF tour.status # "active" THEN tour.step
  ELSE IF action = "next" THEN tour.step + 1 ELSE tour.step - 1

\* onDestroyed: the tour is marked seen and the closet is shown
TourDestroyed(polls) ==
  /\ tour' = [status |-> "off", step |-> 0, polls |-> polls]
  /\ tourSeen' = TRUE
  /\ tourEnded' = TRUE
  /\ TourSetView("closet")

\* the interval of driveToView finds its element, or gives up after 3 s
TourPollFires ==
  /\ Gate
  /\ Len(tour.polls) > 0
  /\ LET moved == TourMoved(Head(tour.polls))
     IN  IF tour.status = "active" /\ moved \notin 0..LastTourStep
         THEN TourDestroyed(Tail(tour.polls))
         ELSE /\ tour' = [tour EXCEPT !.step = moved, !.polls = Tail(@)]
              /\ UNCHANGED <<tourSeen, tourEnded, currentView, editingOutfit, creator,
                             selectedDateForModal, uploader, procs, detailVars,
                         fittingVars>>
  /\ lastOp' = "other"
  /\ UNCHANGED <<wardrobeVars, profileVars, outfits, schedule, planningDate,
                 now, quiz, session, tripVars, isUploading, nextId>>

\* the close button, the overlay, Escape, or Done on the last step
TourClose ==
  /\ TourActive
  /\ TourDestroyed(tour.polls)
  /\ lastOp' = "other"
  /\ UNCHANGED <<wardrobeVars, profileVars, outfits, schedule, planningDate,
                 now, quiz, session, tripVars, isUploading, nextId>>

\* --------------------------- TripPlannerModal --------------------------
Destinations == {"", "Rome"}
TripTabs == {"closet", "trips"}

\* the useState defaults of TripPlannerModal; '' of a date field is NoDate
PlannerDefault ==
  [step |-> 1, isLoading |-> FALSE, destination |-> "", startDate |-> NoDate,
   endDate |-> NoDate]

\* the trips view with the list of trips on it
TripListClickable ==
  PageClickable /\ currentView = "trips" /\ selectedTrip.id = 0

\* the form of the planner, hidden while isLoading
PlannerFormShown == TripPlannerShown /\ ~planner.isLoading

\* "Plan a Trip": setIsTripModalOpen(true)
OpenTripModal ==
  /\ TripListClickable
  /\ isTripModalOpen' = TRUE
  /\ lastOp' = "other"
  /\ UNCHANGED <<wardrobeVars, studioVars, profileVars, currentView, gateVars,
                 trips, selectedTrip, planner, requests, uploadVars, nextId>>
  /\ UNCHANGED <<detailVars, fittingVars>>

\* backdrop or X: onClose; the modal stays mounted and keeps its state
ClosePlanner ==
  /\ TripPlannerShown
  /\ isTripModalOpen' = FALSE
  /\ lastOp' = "other"
  /\ UNCHANGED <<wardrobeVars, studioVars, profileVars, currentView, gateVars,
                 trips, selectedTrip, planner, requests, uploadVars, nextId>>
  /\ UNCHANGED <<detailVars, fittingVars>>
setDestination(d) ==
  /\ PlannerFormShown
  /\ planner.step = 1
  /\ d \in Destinations
  /\ planner' = [planner EXCEPT !.destination = d]
  /\ lastOp' = "other"
  /\ UNCHANGED <<wardrobeVars, studioVars, profileVars, currentView, gateVars,
                 trips, selectedTrip, isTripModalOpen, requests, uploadVars,
                 nextId>>
  /\ UNCHANGED <<detailVars, fittingVars>>
setStartDate(d) ==
  /\ PlannerFormShown
  /\ planner.step = 1
  /\ d \in Dates \cup {NoDate}
  /\ planner' = [planner EXCEPT !.startDate = d]
  /\ lastOp' = "other"
  /\ UNCHANGED <<wardrobeVars, studioVars, profileVars, currentView, gateVars,
                 trips, selectedTrip, isTripModalOpen, requests, uploadVars,
                 nextId>>
  /\ UNCHANGED <<detailVars, fittingVars>>

\* min={startDate} marks an earlier date invalid; onChange still stores it
setEndDate(d) ==
  /\ PlannerFormShown
  /\ planner.step = 1
  /\ d \in Dates \cup {NoDate}
  /\ planner' = [planner EXCEPT !.endDate = d]
  /\ lastOp' = "other"
  /\ UNCHANGED <<wardrobeVars, studioVars, profileVars, currentView, gateVars,
                 trips, selectedTrip, isTripModalOpen, requests, uploadVars,
                 nextId>>
  /\ UNCHANGED <<detailVars, fittingVars>>

\* the disabled flag of Next
PlannerNextEnabled ==
  ~(planner.step = 1 /\ (planner.destination = "" \/ planner.startDate = NoDate
                          \/ planner.endDate = NoDate))

PlannerNext ==
  /\ PlannerFormShown
  /\ planner.step < 3
  /\ PlannerNextEnabled
  /\ planner' = [planner EXCEPT !.step = @ + 1]
  /\ lastOp' = "other"
  /\ UNCHANGED <<wardrobeVars, studioVars, profileVars, currentView, gateVars,
                 trips, selectedTrip, isTripModalOpen, requests, uploadVars,
                 nextId>>
  /\ UNCHANGED <<detailVars, fittingVars>>
PlannerBack ==
  /\ PlannerFormShown
  /\ planner.step > 1
  /\ planner' = [planner EXCEPT !.step = @ - 1]
  /\ lastOp' = "other"
  /\ UNCHANGED <<wardrobeVars, studioVars, profileVars, currentView, gateVars,
                 trips, selectedTrip, isTripModalOpen, requests, uploadVars,
                 nextId>>
  /\ UNCHANGED <<detailVars, fittingVars>>

\* one call of handleGenerate up to its await: the values its closure holds,
\* the 30 s timer and the pending generateTripPlan promise
NewRequest ==
  [destination |-> planner.destination, startDate |-> planner.startDate,
   endDate |-> planner.endDate, state |-> "pending", timer |-> "armed",
   timeoutNotice |-> FALSE, failNotice |-> FALSE, tripId |-> 0]

handleGenerate ==
  /\ PlannerFormShown
  /\ planner.step = 3
  /\ Len(requests) < MaxRequests
  /\ planner' = [planner EXCEPT !.isLoading = TRUE]
  /\ requests' = Append(requests, NewRequest)
  /\ lastOp' = "other"
  /\ UNCHANGED <<wardrobeVars, studioVars, profileVars, currentView, gateVars,
                 trips, selectedTrip, isTripModalOpen, uploadVars, nextId>>
  /\ UNCHANGED <<detailVars, fittingVars>>

\* the timer callback: setIsLoading(false) and the timeout alert; the await
\* of handleGenerate is not touched
TimeoutFires(r) ==
  /\ r \in DOMAIN requests
  /\ requests[r].timer = "armed"
  /\ requests' = [requests EXCEPT ![r].timer = "fired",
                                  ![r].timeoutNotice = TRUE]
  /\ planner' = [planner EXCEPT !.isLoading = FALSE]
  /\ lastOp' = "other"
  /\ UNCHANGED <<wardrobeVars, studioVars, profileVars, currentView, gateVars,
                 trips, selectedTrip, isTripModalOpen, uploadVars, nextId>>
  /\ UNCHANGED <<detailVars, fittingVars>>

\* clearTimeout(timeoutId): a timer that has fired stays fired
clearTimeout(timer) == IF timer = "armed" THEN "cleared" ELSE timer

\* what generateTripPlan resolves with; a packing line is a sequence of
\* characters
TripPlan ==
  [dailyPlan |-> <<[day |-> 1, outfit |-> "look"]>>,
   packingList |->
     [clothes |-> << <<"c">> >>, toiletries |-> <<>>, misc |-> <<>>]]

\* the Trip built after the await, from the values the closure holds
NewTrip(req) ==
  [id |-> nextId.trip, destination |-> req.destination,
   startDate |-> req.startDate, endDate |-> req.endDate,
   dailyPlan |-> TripPlan.dailyPlan, packingList |-> TripPlan.packingList]

\* variant: the new trip is selected without being put into the list
TripCreatedUpdater_Drop(prev, newTrip) == prev

\* handleTripCreated: setTrips(prev => [newTrip, ...prev])
TripCreatedUpdater(prev, newTrip) == <<newTrip>> \o prev

\* generateTripPlan resolves: the rest of the try block and the finally
PlanResolves(r) ==
  /\ r \in DOMAIN requests
  /\ requests[r].state = "pending"
  /\ LET newTrip == NewTrip(requests[r])
     IN  /\ requests' = [requests EXCEPT ![r].state = "resolved",
                                         ![r].timer = clearTimeout(@),
                                         ![r].tripId = newTrip.id]
         /\ trips' = TripCreatedUpdater(trips, newTrip)
         /\ selectedTrip' = newTrip
  /\ isTripModalOpen' = FALSE
  /\ planner' = PlannerDefault
  /\ nextId' = [nextId EXCEPT !.trip = @ + 1]
  /\ lastOp' = "other"
  /\ UNCHANGED <<wardrobeVars, studioVars, profileVars, currentView, gateVars,
                 uploadVars>>
  /\ detail' = DetailAfter(currentView, selectedTrip')
  /\ UNCHANGED fittingVars

\* variant: the catch block also puts the wizard back to its first step
PlanRejects_ResetsForm(r) ==
  /\ r \in DOMAIN requests
  /\ requests[r].state = "pending"
  /\ requests' = [requests EXCEPT ![r].state = "rejected",
                                  ![r].timer = clearTimeout(@),
                                  ![r].failNotice = TRUE]
  /\ planner' = PlannerDefault
  /\ lastOp' = "other"
  /\ UNCHANGED <<wardrobeVars, studioVars, profileVars, currentView, gateVars,
                 trips, selectedTrip, isTripModalOpen, uploadVars, nextId>>
  /\ UNCHANGED <<detailVars, fittingVars>>

\* generateTripPlan rejects: the catch block and the finally
PlanRejects(r) ==
  /\ r \in DOMAIN requests
  /\ requests[r].state = "pending"
  /\ requests' = [requests EXCEPT ![r].state = "rejected",
                                  ![r].timer = clearTimeout(@),
                                  ![r].failNotice = TRUE]
  /\ planner' = [planner EXCEPT !.isLoading = FALSE]
  /\ lastOp' = "other"
  /\ UNCHANGED <<wardrobeVars, studioVars, profileVars, currentView, gateVars,
                 trips, selectedTrip, isTripModalOpen, uploadVars, nextId>>
  /\ UNCHANGED <<detailVars, fittingVars>>

\* a trip card: setSelectedTrip(trip)
SelectTrip(trip) ==
  /\ TripListClickable
  /\ trip \in Range(trips)
  /\ selectedTrip' = trip
  /\ lastOp' = "other"
  /\ UNCHANGED <<wardrobeVars, studioVars, profileVars, currentView, gateVars,
                 trips, isTripModalOpen, planner, requests, uploadVars, nextId>>
  /\ detail' = DetailAfter(currentView, trip)
  /\ UNCHANGED fittingVars

\* a trip chip on a day of the calendar: onEditTrip(activeTrip), where the
\* chip is drawn on the days d with startDate <= d <= endDate
onEditTrip(trip) ==
  /\ CalendarClickable
  /\ trip \in Range(trips)
  /\ \E d \in Dates : trip.startDate <= d /\ d <= trip.endDate
  /\ selectedTrip' = trip
  /\ currentView' = "trips"
  /\ creator' = CreatorAfter("trips", editingOutfit)
  /\ selectedDateForModal' = CalendarAfter("trips")
  /\ uploader' = UploaderAfter("trips")
  /\ procs' = ProcsAfter("trips")
  /\ detail' = DetailAfter("trips", trip)
  /\ fitting' = FittingAfter("trips", itemToTryOn)
  /\ tryons' = TryonsAfter("trips")
  /\ lastOp' = "onEditTrip"
  /\ UNCHANGED <<wardrobeVars, profileVars, gateVars, outfits, schedule,
                 editingOutfit, planningDate, now, trips, isTripModalOpen,
                 planner, requests, isUploading, nextId>>

\* TripDetail onBack: setSelectedTrip(null)
TripBack ==
  /\ PageClickable
  /\ currentView = "trips"
  /\ selectedTrip.id # 0
  /\ selectedTrip' = NoTrip
  /\ lastOp' = "other"
  /\ UNCHANGED <<wardrobeVars, studioVars, profileVars, currentView, gateVars,
                 trips, isTripModalOpen, planner, requests, uploadVars, nextId>>
  /\ detail' = DetailAfter(currentView, NoTrip)
  /\ UNCHANGED fittingVars

\* handleDeleteTrip, window.confirm accepted
handleDeleteTrip(tripId) ==
  /\ PageClickable
  /\ currentView = "trips"
  /\ \E t \in Range(trips) : t.id = tripId
  /\ selectedTrip.id # 0 => tripId = selectedTrip.id
  /\ trips' = SelectSeq(trips, LAMBDA t : t.id # tripId)
  /\ selectedTrip' = IF selectedTrip.id = tripId THEN NoTrip ELSE selectedTrip
  /\ lastOp' = "other"
  /\ UNCHANGED <<wardrobeVars, studioVars, profileVars, currentView, gateVars,
                 isTripModalOpen, planner, requests, uploadVars, nextId>>
  /\ detail' = DetailAfter(currentView, selectedTrip')
  /\ UNCHANGED fittingVars

\* ------------------------------ TripDetail -----------------------------
DetailTabs == {"lookbook", "packing"}
PackTexts == {<<>>, <<" ">>, <<" ", "h">>}

TripDetailShown == Gate /\ currentView = "trips" /\ selectedTrip.id # 0

TripDetailClickable == PageClickable /\ TripDetailShown

\* the two tab buttons of TripDetail
setActiveTab(tab) ==
  /\ TripDetailClickable
  /\ tab \in DetailTabs
  /\ detail' = [detail EXCEPT !.activeTab = tab]
  /\ lastOp' = "other"
  /\ UNCHANGED <<wardrobeVars, studioVars, profileVars, currentView, gateVars,
                 tripVars, uploadVars, fittingVars, nextId>>

\* onInputChange of a packing section
setNewItemInputs(category, val) ==
  /\ TripDetailClickable
  /\ detail.activeTab = "packing"
  /\ category \in PackCategories
  /\ detail' = [detail EXCEPT !.newItemInputs[category] = val]
  /\ lastOp' = "other"
  /\ UNCHANGED <<wardrobeVars, studioVars, profileVars, currentView, gateVars,
                 tripVars, uploadVars, fittingVars, nextId>>

\* the Add button or Enter; a blank input is an early return
handleAddItem(category) ==
  /\ TripDetailClickable
  /\ detail.activeTab = "packing"
  /\ category \in PackCategories
  /\ Len(detail.localPackingList[category]) < MaxPack
  /\ LET val == trim(detail.newItemInputs[category])
     IN  IF val = <<>>
         THEN UNCHANGED detail
         ELSE detail' =
                [detail EXCEPT
                   !.localPackingList[category] = Append(@, val),
                   !.newItemInputs[category] = <<>>,
                   !.hasChanges = TRUE]
  /\ lastOp' = "handleAddItem"
  /\ UNCHANGED <<wardrobeVars, studioVars, profileVars, currentView, gateVars,
                 tripVars, uploadVars, fittingVars, nextId>>

\* prev[category].filter((_, i) => i !== index)
RemoveAt(list, index) ==
  SubSeq(list, 1, index - 1) \o SubSeq(list, index + 1, Len(list))

\* the bin next to a packing line
handleRemoveItem(category, index) ==
  /\ TripDetailClickable
  /\ detail.activeTab = "packing"
  /\ category \in PackCategories
  /\ index \in DOMAIN detail.localPackingList[category]
  /\ detail' =
       [detail EXCEPT !.localPackingList[category] = RemoveAt(@, index),
                      !.hasChanges = TRUE]
  /\ lastOp' = "handleRemoveItem"
  /\ UNCHANGED <<wardrobeVars, studioVars, profileVars, currentView, gateVars,
                 tripVars, uploadVars, fittingVars, nextId>>

\* variant: the packing list is written to every trip
UpdateTripUpdater_All(prev, updatedTrip) ==
  [k \in DOMAIN prev |->
     [prev[k] EXCEPT !.packingList = updatedTrip.packingList]]

\* handleUpdateTrip: setTrips(prev => prev.map(...))
UpdateTripUpdater(prev, updatedTrip) ==
  [k \in DOMAIN prev |->
     IF prev[k].id = updatedTrip.id THEN updatedTrip ELSE prev[k]]

\* "Save Changes", with onUpdateTrip = handleUpdateTrip inlined; the new
\* trip prop runs the effect on [trip]
handleSaveChanges ==
  /\ TripDetailClickable
  /\ detail.hasChanges
  /\ LET updatedTrip ==
           [selectedTrip EXCEPT !.packingList = detail.localPackingList]
     IN  /\ trips' = UpdateTripUpdater(trips, updatedTrip)
         /\ selectedTrip' = updatedTrip
         /\ detail' = TripEffect([detail EXCEPT !.hasChanges = FALSE],
                                 updatedTrip)
  /\ lastOp' = "handleSaveChanges"
  /\ UNCHANGED <<wardrobeVars, studioVars, profileVars, currentView, gateVars,
                 isTripModalOpen, planner, requests, uploadVars, fittingVars,
                 nextId>>

\* ------------------------------ FittingRoom ----------------------------
STEPS ==
  <<"Scanning biometrics...", "Measuring body proportions...",
    "Draping fabric...", "Simulating lighting...",
    "Stylist reviewing look...">>

\* the categories a carousel of the laboratory lists
CarouselCategories ==
  [Top |-> {"Top", "Outerwear"}, Bottom |-> {"Bottom"}, Shoe |-> {"Shoe"}]

FittingRoomClickable == FittingRoomShown /\ ~AvatarSetupShown

\* a card of a carousel: the slot takes the item, or drops it when it holds it
handleSelect(slot, item) ==
  /\ FittingRoomClickable
  /\ slot \in DOMAIN CarouselCategories
  /\ item \in Range(items)
  /\ item.category \in CarouselCategories[slot]
  /\ fitting' =
       [fitting EXCEPT
          !.composition[slot] = IF @.id = item.id THEN NoItem ELSE item]
  /\ lastOp' = "other"
  /\ UNCHANGED tryons
  /\ UNCHANGED <<wardrobeVars, studioVars, profileVars, currentView, gateVars,
                 tripVars, uploadVars, detailVars, nextId>>

\* Object.values(composition).every(item => item === null)
CompositionEmpty(composition) ==
  \A slot \in DOMAIN composition : composition[slot].id = 0

isGenerateDisabled ==
  CompositionEmpty(fitting.composition) \/ fitting.status = "processing"

\* one call of a generating handler up to its first await
NewTryOn(kind) == [kind |-> kind, state |-> "image", live |-> TRUE]

\* "Generate Look": handleGenerate of FittingRoom up to its first await
handleGenerateTryOn ==
  /\ FittingRoomClickable
  /\ ~isGenerateDisabled
  /\ Len(tryons) < MaxTryOns
  /\ fitting' = [fitting EXCEPT !.status = "processing", !.loadingStep = 0,
                                !.activeView = "front"]
  /\ tryons' = Append(tryons, NewTryOn("front"))
  /\ lastOp' = "other"
  /\ UNCHANGED <<wardrobeVars, studioVars, profileVars, currentView, gateVars,
                 tripVars, uploadVars, detailVars, nextId>>

\* the 2 s interval of handleGenerate, cleared in its finally
LoadingTick(r) ==
  /\ r \in DOMAIN tryons
  /\ tryons[r].kind = "front"
  /\ tryons[r].state \in {"image", "critique"}
  /\ tryons[r].live
  /\ fitting' = [fitting EXCEPT !.loadingStep = (@ + 1) % Len(STEPS)]
  /\ lastOp' = "other"
  /\ UNCHANGED tryons
  /\ UNCHANGED <<wardrobeVars, studioVars, profileVars, currentView, gateVars,
                 tripVars, uploadVars, detailVars, nextId>>

\* generateBiometricTryOn settles: on to the critique, or the catch block
FrontSettles(r, ok) ==
  /\ r \in DOMAIN tryons
  /\ tryons[r].kind = "front"
  /\ tryons[r].state = "image"
  /\ IF ok
     THEN /\ tryons' = [tryons EXCEPT ![r].state = "critique"]
          /\ UNCHANGED fitting
     ELSE /\ tryons' = [tryons EXCEPT ![r].state = "rejected"]
          /\ fitting' = IF tryons[r].live
                        THEN [fitting EXCEPT !.status = "error"] ELSE fitting
  /\ lastOp' = "other"
  /\ UNCHANGED <<wardrobeVars, studioVars, profileVars, currentView, gateVars,
                 tripVars, uploadVars, detailVars, nextId>>

\* critiqueGeneratedLook: a failed call is caught and a stock verdict is
\* returned in its place
critiqueGeneratedLook(aiOk) == IF aiOk THEN "ai" ELSE "fallback"

\* critiqueGeneratedLook settles: setResult and setStatus('success')
CritiqueSettles(r, aiOk) ==
  /\ r \in DOMAIN tryons
  /\ tryons[r].state = "critique"
  /\ tryons' = [tryons EXCEPT ![r].state = "resolved"]
  /\ fitting' =
       IF tryons[r].live
       THEN [fitting EXCEPT
               !.result = [id |-> r, frontUrl |-> r, sideUrl |-> 0,
                           backUrl |-> 0,
                           criticVerdict |-> critiqueGeneratedLook(aiOk)],
               !.status = "success"]
       ELSE fitting
  /\ lastOp' = "other"
  /\ UNCHANGED <<wardrobeVars, studioVars, profileVars, currentView, gateVars,
                 tripVars, uploadVars, detailVars, nextId>>

\* hasImage of the angle selector
HasImage(result, angle) ==
  \/ angle = "front"
  \/ angle = "side" /\ result.sideUrl # 0
  \/ angle = "back" /\ result.backUrl # 0

\* currentImage: the image the mirror shows, 0 where it has none
currentImage(f) ==
  IF f.result.id = 0 THEN 0
  ELSE IF f.activeView = "front" THEN f.result.frontUrl
  ELSE IF f.activeView = "side" THEN f.result.sideUrl
  ELSE f.result.backUrl

\* the angle selector is on the screen
AngleSelectorShown ==
  FittingRoomClickable /\ fitting.status = "success" /\ fitting.result.id # 0

\* variant: an angle button generates whether or not its image is there
handleChangeView_NoCache(angle) ==
  /\ AngleSelectorShown
  /\ angle \in Angles
  /\ IF angle = "front"
     THEN /\ fitting' = [fitting EXCEPT !.activeView = angle]
          /\ UNCHANGED tryons
     ELSE /\ Len(tryons) < MaxTryOns
          /\ fitting' = [fitting EXCEPT !.generatingAngle = angle]
          /\ tryons' = Append(tryons, NewTryOn(angle))
  /\ lastOp' = "other"
  /\ UNCHANGED <<wardrobeVars, studioVars, profileVars, currentView, gateVars,
                 tripVars, uploadVars, detailVars, nextId>>

\* an angle button: handleChangeView up to its await
handleChangeView(angle) ==
  /\ AngleSelectorShown
  /\ angle \in Angles
  /\ IF HasImage(fitting.result, angle)
     THEN /\ fitting' = [fitting EXCEPT !.activeView = angle]
          /\ UNCHANGED tryons
     ELSE /\ Len(tryons) < MaxTryOns
          /\ fitting' = [fitting EXCEPT !.generatingAngle = angle]
          /\ tryons' = Append(tryons, NewTryOn(angle))
  /\ lastOp' = "handleChangeView"
  /\ UNCHANGED <<wardrobeVars, studioVars, profileVars, currentView, gateVars,
                 tripVars, uploadVars, detailVars, nextId>>

\* setResult(prev => ...) of handleChangeView
AngleUpdater(prev, angle, newImage) ==
  IF prev.id = 0 THEN prev
  ELSE IF angle = "side" THEN [prev EXCEPT !.sideUrl = newImage]
  ELSE [prev EXCEPT !.backUrl = newImage]

\* generateAngle settles: the rest of the try block or the catch, and the
\* finally
AngleSettles(r, ok) ==
  /\ r \in DOMAIN tryons
  /\ tryons[r].kind \in {"side", "back"}
  /\ tryons[r].state = "image"
  /\ tryons' = [tryons EXCEPT ![r].state = IF ok THEN "resolved"
                                          ELSE "rejected"]
  /\ fitting' =
       IF ~tryons[r].live THEN fitting
       ELSE IF ok
       THEN [fitting EXCEPT
               !.result = AngleUpdater(@, tryons[r].kind, r),
               !.activeView = tryons[r].kind,
               !.generatingAngle = "none"]
       ELSE [fitting EXCEPT !.generatingAngle = "none"]
  /\ lastOp' = "other"
  /\ UNCHANGED <<wardrobeVars, studioVars, profileVars, currentView, gateVars,
                 tripVars, uploadVars, detailVars, nextId>>

\* "Try Again" of the error view: setStatus('idle')
TryAgain ==
  /\ FittingRoomClickable
  /\ fitting.status = "error"
  /\ fitting' = [fitting EXCEPT !.status = "idle"]
  /\ lastOp' = "other"
  /\ UNCHANGED tryons
  /\ UNCHANGED <<wardrobeVars, studioVars, profileVars, currentView, gateVars,
                 tripVars, uploadVars, detailVars, nextId>>

\* ---------------------------- ImageUploader -----------------------------
FileTypes == {"image", "other"}
FileLists == UNION {[1..n -> FileTypes] : n \in 1..MaxFiles}
BatchLists == {files \in FileLists : Len(files) > 1}
AnalysisCategories == {"Top"}
UploadTabs == {"closet", "studio"}

\* variant: the type test of the batch loop lets every file through
IsImage_Any(file) == TRUE

\* file.type.startsWith('image/')
IsImage(file) == file = "image"

\* the files from index k on that the batch loop will hand to the AI
ImagesFrom(files, k) == Cardinality({j \in k..Len(files) : IsImage(files[j])})

\* the index at which the loop, started at k, next awaits: the first image
\* from k on, or Len(files) + 1 when the loop runs to its end
NextImage(files, k) ==
  IF \E j \in k..Len(files) : IsImage(files[j])
  THEN CHOOSE j \in k..Len(files) :
         IsImage(files[j]) /\ \A l \in k..(j - 1) : ~IsImage(files[l])
  ELSE Len(files) + 1

\* one call of processSingleFile or processBatchFiles: where it stands, its
\* local successCount, whether the uploader that started it is still there,
\* and what it has done file by file
NewProc(kind, files) ==
  [kind |-> kind, files |-> files, i |-> 1, pc |-> "read", successCount |-> 0,
   live |-> TRUE, visited |-> <<>>, outcomes |-> <<>>, added |-> <<>>,
   completeCalls |-> 0, reported |-> 0]

\* the batch loop from index k up to its next await: the files that are not
\* images are passed over, then a read is awaited or the 1 s timer is set
LoopFrom(proc, k) ==
  LET j == NextImage(proc.files, k)
  IN  [proc EXCEPT !.i = j,
                   !.pc = IF j <= Len(proc.files) THEN "read" ELSE "timer",
                   !.visited = @ \o [x \in 1..(j - k) |-> k + x - 1],
                   !.outcomes = @ \o [x \in 1..(j - k) |-> "skipped"],
                   !.added = @ \o [x \in 1..(j - k) |-> 0]]

\* setBatchProgress(prev => prev + 1) once for each file passed over
ProgressAfterSkips(progress, files, k) == progress + (NextImage(files, k) - k)

RECURSIVE PendingImages(_)
\* the items the running batches may still add
PendingImages(ps) ==
  IF ps = <<>> THEN 0
  ELSE (IF Head(ps).kind = "batch" /\ Head(ps).pc \in {"read", "analyze"}
        THEN ImagesFrom(Head(ps).files, Head(ps).i) ELSE 0)
       + PendingImages(Tail(ps))

UploadZoneReachable == PageClickable /\ currentView = "closet"

\* the disabled flag of the file input
FileInputEnabled == ~(uploader.isAnalyzing \/ uploader.isBatchProcessing)

\* handleFiles(fileList): one file goes to processSingleFile, several go to
\* processBatchFiles; each runs up to its first await
handleFiles(files) ==
  /\ files \in FileLists
  /\ Len(procs) < MaxUploads
  /\ IF Len(files) = 1
     THEN /\ procs' = Append(procs, NewProc("single", files))
          /\ uploader' = [uploader EXCEPT !.isAnalyzing = TRUE]
          /\ isUploading' = TRUE
     ELSE /\ Len(items) + PendingImages(procs) + ImagesFrom(files, 1)
               <= MaxItems
          /\ procs' = Append(procs, LoopFrom(NewProc("batch", files), 1))
          /\ uploader' =
               [uploader EXCEPT !.isBatchProcessing = TRUE,
                                !.batchTotal = Len(files),
                                !.batchProgress =
                                   ProgressAfterSkips(0, files, 1),
                                !.batchSuccessCount = 0]
          /\ UNCHANGED isUploading
  /\ lastOp' = "other"
  /\ UNCHANGED <<wardrobeVars, studioVars, profileVars, currentView, gateVars,
                 tripVars, nextId>>
  /\ UNCHANGED <<detailVars, fittingVars>>

\* the file picker: handleFileInput
handleFileInput(files) ==
  /\ UploadZoneReachable
  /\ FileInputEnabled
  /\ handleFiles(files)

\* files dropped on the upload zone: onDrop
onDrop(files) ==
  /\ UploadZoneReachable
  /\ handleFiles(files)

\* a setState call of an upload reaches the uploader only while it is mounted
SetUploader(proc, next) == IF proc.live THEN next ELSE uploader

\* variant: an error of one file ends the batch
BatchCatch_Rethrow(proc) == [proc EXCEPT !.pc = "done"]

\* the catch of the batch loop logs the error and the loop goes on
BatchCatch(proc) == LoopFrom(proc, proc.i + 1)

\* readFileAsBase64 settles: reader.onload resolves, reader.onerror rejects
ReadSettles(p, ok) ==
  /\ p \in DOMAIN procs
  /\ procs[p].pc = "read"
  /\ LET proc == procs[p]
         failed == [proc EXCEPT !.visited = Append(@, proc.i),
                                !.outcomes = Append(@, "readfail"),
                                !.added = Append(@, 0)]
     IN  IF ok
         THEN /\ procs' = [procs EXCEPT ![p].pc = "analyze"]
              /\ UNCHANGED uploader
         ELSE IF proc.kind = "batch"
         THEN /\ procs' = [procs EXCEPT ![p] = BatchCatch(failed)]
              /\ uploader' = SetUploader(proc,
                   [uploader EXCEPT !.batchProgress =
                      ProgressAfterSkips(proc.i, proc.files, proc.i + 1)])
         ELSE /\ procs' = [procs EXCEPT ![p] = [failed EXCEPT !.pc = "done"]]
              /\ uploader' = SetUploader(proc,
                   [uploader EXCEPT !.isAnalyzing = FALSE])
  /\ lastOp' = "other"
  /\ UNCHANGED <<wardrobeVars, studioVars, profileVars, currentView, gateVars,
                 tripVars, isUploading, nextId>>
  /\ UNCHANGED <<detailVars, fittingVars>>

\* what the AI answers for a garment of the given category
Answer(category) ==
  [category |-> category, subCategory |-> "Graphic Tee",
   primaryColor |-> "Blue", season |-> "Summer",
   styleTags |-> <<"Minimalist">>]

\* variant: the default result leaves the season open
analyzeClothingImage_NoSeason(aiOk, category) ==
  IF aiOk THEN Answer(category)
  ELSE [category |-> "Other", subCategory |-> "Unknown",
        primaryColor |-> "Unknown", season |-> "", styleTags |-> <<>>]

\* analyzeClothingImage: every error is caught and the default result is
\* returned in its place; the promise never rejects
analyzeClothingImage(aiOk, category) ==
  IF aiOk THEN Answer(category)
  ELSE [category |-> "Other", subCategory |-> "Unknown",
        primaryColor |-> "Unknown", season |-> "All", styleTags |-> <<>>]

createItemFromAnalysis(analysis) ==
  [id |-> nextId.item, category |-> analysis.category,
   subCategory |-> analysis.subCategory,
   primaryColor |-> analysis.primaryColor, season |-> analysis.season,
   tags |-> analysis.styleTags]

\* analyzeClothingImage settles; the item is built and handed over
AnalyzeSettles(p, aiOk, category) ==
  /\ p \in DOMAIN procs
  /\ procs[p].pc = "analyze"
  /\ LET proc == procs[p]
         newItem ==
           createItemFromAnalysis(analyzeClothingImage(aiOk, category))
         done == [proc EXCEPT !.visited = Append(@, proc.i),
                              !.outcomes =
                                 Append(@, IF aiOk THEN "ok" ELSE "aifail"),
                              !.added = Append(@, newItem.id)]
     IN  IF proc.kind = "batch"
         THEN /\ items' = BatchItemUpdater(items, newItem)
              /\ procs' = [procs EXCEPT ![p] =
                   LoopFrom([done EXCEPT !.successCount = @ + 1], proc.i + 1)]
              /\ uploader' = SetUploader(proc,
                   [uploader EXCEPT
                      !.batchSuccessCount = proc.successCount + 1,
                      !.batchProgress =
                         ProgressAfterSkips(proc.i, proc.files, proc.i + 1)])
              /\ UNCHANGED <<selectedItem, isModalOpen, editedItem,
                             isUploading>>
         ELSE /\ isUploading' = FALSE
              /\ selectedItem' = newItem
              /\ isModalOpen' = TRUE
              /\ editedItem' = EditedItemAfter(newItem)
              /\ procs' = [procs EXCEPT ![p] = [done EXCEPT !.pc = "done"]]
              /\ uploader' = SetUploader(proc,
                   [uploader EXCEPT !.isAnalyzing = FALSE])
              /\ UNCHANGED items
  /\ nextId' = [nextId EXCEPT !.item = @ + 1]
  /\ lastOp' = "other"
  /\ UNCHANGED <<studioVars, profileVars, currentView, gateVars, tripVars>>
  /\ UNCHANGED <<detailVars, fittingVars>>

\* the 1 s timer at the end of processBatchFiles -> handleBatchComplete
BatchTimerFires(p) ==
  /\ p \in DOMAIN procs
  /\ procs[p].pc = "timer"
  /\ procs' = [procs EXCEPT ![p].pc = "done",
                            ![p].completeCalls = @ + 1,
                            ![p].reported = procs[p].successCount]
  /\ uploader' = SetUploader(procs[p],
       [uploader EXCEPT !.isBatchProcessing = FALSE, !.batchTotal = 0,
                        !.batchProgress = 0])
  /\ isUploading' = FALSE
  /\ lastOp' = "other"
  /\ UNCHANGED <<wardrobeVars, studioVars, profileVars, currentView, gateVars,
                 tripVars, nextId>>
  /\ UNCHANGED <<detailVars, fittingVars>>

\* ------------------------------ page load ------------------------------
\* handleClearData: window.location.reload(); the mount effect of App clears
\* localStorage, every piece of state starts over and pending timers are gone
handleClearData ==
  /\ ProfileViewClickable
  /\ session < MaxSessions
  /\ session' = session + 1
  /\ items' = <<>>
  /\ outfits' = <<>>
  /\ schedule' = <<>>
  /\ userProfile' = NoProfile
  /\ currentView' = "closet"
  /\ selectedItem' = NoItem
  /\ isModalOpen' = FALSE
  /\ editingOutfit' = NoOutfit
  /\ planningDate' = NoDate
  /\ showAvatarSetup' = FALSE
  /\ itemToTryOn' = NoItem
  /\ editedItem' = NoItem
  /\ creator' = CreatorDefault
  /\ selectedDateForModal' = NoDate
  /\ quiz' = QuizDefault
  /\ tour' = TourUnmounted
  /\ tourSeen' = FALSE
  /\ UNCHANGED tourEnded
  /\ trips' = <<>>
  /\ selectedTrip' = NoTrip
  /\ isTripModalOpen' = FALSE
  /\ planner' = PlannerDefault
  /\ requests' = <<>>
  /\ isUploading' = FALSE
  /\ uploader' = UploaderDefault
  /\ procs' = <<>>
  /\ lastOp' = "handleClearData"
  /\ UNCHANGED <<nextId, now>>
  /\ detail' = DetailDefault(NoTrip)
  /\ fitting' = FittingDefault
  /\ tryons' = <<>>

\* ---------------------------- specifications ---------------------------
\* a profile after the quiz, with its style tags removed again
CompletedProfile == QuizProfile(QuizDefault.formData)

InitApp ==
  /\ items = <<>>
  /\ outfits = <<>>
  /\ schedule = <<>>
  /\ userProfile = NoProfile
  /\ currentView = "closet"
  /\ selectedItem = NoItem
  /\ isModalOpen = FALSE
  /\ editingOutfit = NoOutfit
  /\ planningDate = NoDate
  /\ showAvatarSetup = FALSE
  /\ itemToTryOn = NoItem
  /\ editedItem = NoItem
  /\ creator = CreatorDefault
  /\ selectedDateForModal = NoDate
  /\ quiz = QuizDefault
  /\ tour = TourUnmounted
  /\ tourSeen = FALSE
  /\ tourEnded = FALSE
  /\ session = 1
  /\ trips = <<>>
  /\ selectedTrip = NoTrip
  /\ isTripModalOpen = FALSE
  /\ planner = PlannerDefault
  /\ requests = <<>>
  /\ isUploading = FALSE
  /\ uploader = UploaderDefault
  /\ procs = <<>>
  /\ detail = DetailDefault(NoTrip)
  /\ fitting = FittingDefault
  /\ tryons = <<>>
  /\ nextId = [item |-> 1, outfit |-> 1, trip |-> 1]
  /\ now = 1
  /\ lastOp = "init"

\* the wardrobe, the composer and the calendar, once onboarding is done
InitStudio ==
  /\ items = <<>>
  /\ outfits = <<>>
  /\ schedule = <<>>
  /\ userProfile = CompletedProfile
  /\ currentView = "closet"
  /\ selectedItem = NoItem
  /\ isModalOpen = FALSE
  /\ editingOutfit = NoOutfit
  /\ planningDate = NoDate
  /\ showAvatarSetup = FALSE
  /\ itemToTryOn = NoItem
  /\ editedItem = NoItem
  /\ creator = CreatorDefault
  /\ selectedDateForModal = NoDate
  /\ quiz = QuizDefault
  /\ tour = [status |-> "off", step |-> 0, polls |-> <<>>]
  /\ tourSeen = TRUE
  /\ tourEnded = TRUE
  /\ session = 1
  /\ trips = <<>>
  /\ selectedTrip = NoTrip
  /\ isTripModalOpen = FALSE
  /\ planner = PlannerDefault
  /\ requests = <<>>
  /\ isUploading = FALSE
  /\ uploader = UploaderDefault
  /\ procs = <<>>
  /\ detail = DetailDefault(NoTrip)
  /\ fitting = FittingDefault
  /\ tryons = <<>>
  /\ nextId = [item |-> 1, outfit |-> 1, trip |-> 1]
  /\ now = 1
  /\ lastOp = "init"

\* the whole session: the quiz, the gate, the tabs, the profile and the tour
Next ==
  \/ \E n \in QuizNames : QuizSetName(n)
  \/ \E t \in STYLE_CHIPS : toggleStyle(t)
  \/ QuizNext
  \/ QuizTimerFires
  \/ \E v \in Views \ {"fitting-room"} : NavTab(v)
  \/ NavFittingRoomTab
  \/ FittingRoomClose
  \/ AvatarSetupSave
  \/ AvatarSetupCancel
  \/ handleToggleAI
  \/ \E t \in STYLE_CHIPS : handleAddTag(t)
  \/ \E t \in STYLE_CHIPS : removeTag(t)
  \/ TourNextClick
  \/ TourPrevClick
  \/ TourPollFires
  \/ TourClose
  \/ handleClearData

Spec == InitApp /\ [][Next]_vars

\* the trips view and the planner, with the plan requests in flight
NextTrip ==
  \/ \E v \in TripTabs : NavTab(v)
  \/ OpenTripModal
  \/ ClosePlanner
  \/ \E d \in Destinations : setDestination(d)
  \/ \E d \in Dates \cup {NoDate} : setStartDate(d)
  \/ \E d \in Dates \cup {NoDate} : setEndDate(d)
  \/ PlannerNext
  \/ PlannerBack
  \/ handleGenerate
  \/ \E r \in 1..MaxRequests : TimeoutFires(r)
  \/ \E r \in 1..MaxRequests : PlanResolves(r)
  \/ \E r \in 1..MaxRequests : PlanRejects(r)
  \/ \E t \in Range(trips) : SelectTrip(t)
  \/ TripBack
  \/ \E t \in Range(trips) : handleDeleteTrip(t.id)

SpecTrip == InitStudio /\ [][NextTrip]_vars

\* the trip detail view over trips planned one after the other
InputPackCategories == {"clothes"}

NextDetail ==
  \/ \E v \in TripTabs : NavTab(v)
  \/ OpenTripModal
  \/ ClosePlanner
  \/ setDestination("Rome")
  \/ setStartDate(1)
  \/ setEndDate(1)
  \/ PlannerNext
  \/ handleGenerate
  \/ \E r \in 1..MaxRequests : PlanResolves(r)
  \/ \E t \in Range(trips) : SelectTrip(t)
  \/ TripBack
  \/ \E t \in Range(trips) : handleDeleteTrip(t.id)
  \/ \E tab \in DetailTabs : setActiveTab(tab)
  \/ \E c \in InputPackCategories, val \in PackTexts :
       setNewItemInputs(c, val)
  \/ \E c \in PackCategories : handleAddItem(c)
  \/ \E c \in PackCategories, i \in 1..MaxPack : handleRemoveItem(c, i)
  \/ handleSaveChanges

SpecDetail == InitStudio /\ [][NextDetail]_vars

\* the trip detail view reached from the trip list and from the calendar
NextAgenda ==
  \/ NextDetail
  \/ NavTab("plan")
  \/ \E t \in Range(trips) : onEditTrip(t)

SpecAgenda == InitStudio /\ [][NextAgenda]_vars

\* the fitting room over a wardrobe filled by batch uploads
NextFitting ==
  \/ \E it \in NewItems : handleBatchItem(it)
  \/ NavFittingRoomTab
  \/ AvatarSetupSave
  \/ FittingRoomClose
  \/ \E slot \in DOMAIN CarouselCategories, it \in Range(items) :
       handleSelect(slot, it)
  \/ handleGenerateTryOn
  \/ \E r \in 1..MaxTryOns : LoadingTick(r)
  \/ \E r \in 1..MaxTryOns, ok \in BOOLEAN : FrontSettles(r, ok)
  \/ \E r \in 1..MaxTryOns, aiOk \in BOOLEAN : CritiqueSettles(r, aiOk)
  \/ \E angle \in Angles : handleChangeView(angle)
  \/ \E r \in 1..MaxTryOns, ok \in BOOLEAN : AngleSettles(r, ok)
  \/ TryAgain

SpecFitting == InitStudio /\ [][NextFitting]_vars

\* the uploader with its uploads in flight, left and come back to
NextUpload ==
  \/ \E v \in UploadTabs : NavTab(v)
  \/ \E files \in FileLists : handleFileInput(files)
  \/ \E files \in FileLists : onDrop(files)
  \/ \E q \in 1..MaxUploads, ok \in BOOLEAN : ReadSettles(q, ok)
  \/ \E q \in 1..MaxUploads, aiOk \in BOOLEAN, c \in AnalysisCategories :
       AnalyzeSettles(q, aiOk, c)
  \/ \E q \in 1..MaxUploads : BatchTimerFires(q)
  \/ ModalClose

SpecUpload == InitStudio /\ [][NextUpload]_vars

\* the uploads together with the Save button of the detail modal
NextCommit ==
  \/ NextUpload
  \/ handleSaveItem

SpecCommit == InitStudio /\ [][NextCommit]_vars

\* every read and every AI call settles, and a timer that is set fires
UploadStep(q) ==
  \/ \E ok \in BOOLEAN : ReadSettles(q, ok)
  \/ \E aiOk \in BOOLEAN, c \in AnalysisCategories : AnalyzeSettles(q, aiOk, c)
  \/ BatchTimerFires(q)

\* batches dropped on the upload zone, the uploader left and come back to
NextBatch ==
  \/ \E v \in UploadTabs : NavTab(v)
  \/ \E files \in BatchLists : onDrop(files)
  \/ \E q \in 1..MaxUploads, ok \in BOOLEAN : ReadSettles(q, ok)
  \/ \E q \in 1..MaxUploads, aiOk \in BOOLEAN, c \in AnalysisCategories :
       AnalyzeSettles(q, aiOk, c)
  \/ \E q \in 1..MaxUploads : BatchTimerFires(q)

SpecUploadLive ==
  /\ InitStudio
  /\ [][NextBatch]_vars
  /\ \A q \in 1..MaxUploads : WF_vars(UploadStep(q))

\* the composer and the calendar over a wardrobe filled by batch uploads
NextStudio ==
  \/ \E v \in StudioTabs : NavTab(v)
  \/ \E it \in NewItems : handleBatchItem(it)
  \/ \E s \in InputSlots : setActiveSlot(s)
  \/ \E it \in Range(items) : handleSelectItem(it)
  \/ \E s \in SlotIds : handleClearSlot(s)
  \/ handleSave
  \/ \E n \in Names : setOutfitName(n)
  \/ CancelSaveDialog
  \/ confirmSave
  \/ handleCancelStudio
  \/ \E d \in Dates : handleDayClick(d)
  \/ CloseDayChooser
  \/ \E o \in Range(outfits) : handleSelectOutfit(o)
  \/ \E d \in Dates : handleRemoveOutfit(d)
  \/ \E d \in Dates : handleEditOutfit(d)
  \/ handleStartPlanning

SpecStudio == InitStudio /\ [][NextStudio]_vars

\* the composer over a wardrobe filled and edited through the detail modal
NextWardrobe ==
  \/ \E v \in WardrobeTabs : NavTab(v)
  \/ \E it \in NewItems : handleAnalysisComplete(it)
  \/ \E it \in Range(items) : handleOpenItem(it)
  \/ \E c \in InputCategories : ModalEditCategory(c)
  \/ handleSaveItem
  \/ handleDeleteItem
  \/ ModalClose
  \/ \E s \in InputSlots : setActiveSlot(s)
  \/ \E it \in Range(items) : handleSelectItem(it)
  \/ \E s \in SlotIds : handleClearSlot(s)
  \/ handleSave
  \/ \E n \in Names : setOutfitName(n)
  \/ CancelSaveDialog
  \/ confirmSave
  \/ handleCancelStudio

SpecWardrobe == InitStudio /\ [][NextWardrobe]_vars

\* ------------------------------- claims --------------------------------
OutfitIds(outs) == {outs[k].id : k \in DOMAIN outs}
ConfirmOutcomes ==
  {"confirmSave_rejected", "confirmSave_update", "confirmSave_create"}

\* C1: after any sequence of schedule updates, removals and outfit saves
\* (in or out of planning mode) the schedule holds at most one entry per date
C1_OneEntryPerDate ==
  \A i, j \in DOMAIN schedule :
     schedule[i].date = schedule[j].date => i = j

\* a planning-mode save has just scheduled its outfit next to another day's
C1_Witness ==
  /\ lastOp = "confirmSave_create"
  /\ currentView = "plan"
  /\ Len(schedule) = 2

\* C4: saving an edited item or deleting an item leaves the outfit list as
\* it was, so every outfit keeps the item copies it was saved with
C4_ItemEditKeepsOutfits ==
  [][lastOp' \in {"handleSaveItem", "handleDeleteItem"} => outfits' = outfits]_vars

\* an edited item was saved while an outfit holds its earlier copy
C4_Witness ==
  /\ lastOp = "handleSaveItem"
  /\ \E k \in DOMAIN outfits, m \in DOMAIN items :
       \E j \in DOMAIN outfits[k].items :
          /\ outfits[k].items[j].id = items[m].id
          /\ outfits[k].items[j] # items[m]

C6_BlankNameRejected ==
  [][(lastOp' \in ConfirmOutcomes /\ trim(creator.outfitName) = <<>>) =>
       /\ UNCHANGED <<outfits, schedule, planningDate, editingOutfit,
                      currentView, creator>>
       /\ creator'.isSaving]_vars

\* a whitespace-only name was confirmed in planning mode
C6_Witness ==
  /\ lastOp = "confirmSave_rejected"
  /\ creator.outfitName = <<" ">>
  /\ creator.isSaving
  /\ planningDate # NoDate

\* C7: every stored outfit has at least one item
C7_OutfitsNonEmpty ==
  \A k \in DOMAIN outfits : Len(outfits[k].items) >= 1

\* an outfit is open for edit with every slot cleared and Update Look
\* was pressed
C7_Witness ==
  /\ lastOp = "handleSave_ignored"
  /\ editingOutfit.id # 0
  /\ SelectedItems(creator.selections) = <<>>

\* what App renders while the profile is absent: the quiz and nothing else
OnlyQuizRendered ==
  /\ QuizShown
  /\ ~PageClickable
  /\ ~OverlayShown
  /\ tour.status = "unmounted"
  /\ currentView = "closet"

\* C3: onboarding cannot be bypassed. While userProfile is null only the
\* quiz is rendered (no view, no navigation, no tour) and no state of the
\* views changes; a non-null profile always has onboardingCompleted set; and
\* within a session nothing sets the profile back to null.
C3_OnboardingGate ==
  /\ [](~userProfile.present => OnlyQuizRendered)
  /\ [](userProfile.present => userProfile.onboardingCompleted)
  /\ [][~userProfile.present =>
          UNCHANGED <<wardrobeVars, studioVars, showAvatarSetup, itemToTryOn,
                      currentView, tripVars, uploadVars>>]_vars
  /\ [][userProfile.present /\ session' = session => userProfile'.present]_vars

\* a second session has gone through the quiz and then changed its profile
C3_Witness ==
  /\ session = 2
  /\ userProfile.present
  /\ userProfile.facePhoto
  /\ ~userProfile.allowPersonalization
  /\ currentView = "fitting-room"

\* C2: once the 30 s timer of a plan request has fired, the timeout notice
\* has been shown and that request never adds a Trip, whatever
\* generateTripPlan does afterwards.
C2_TimedOutRequestAddsNoTrip ==
  \A r \in DOMAIN requests :
    requests[r].timer = "fired" =>
      /\ requests[r].timeoutNotice
      /\ requests[r].tripId = 0

\* the batches among the uploads
Batches == {q \in DOMAIN procs : procs[q].kind = "batch"}

\* the ids of the items a batch handed to onBatchItem
AddedIds(proc) == {proc.added[j] : j \in DOMAIN proc.added} \ {0}

\* K: the files of a batch that are not images
NonImages(proc) ==
  Cardinality({j \in DOMAIN proc.files : proc.files[j] # "image"})

\* C8: for a batch of N files of which K are not images, the count handed to
\* onBatchComplete is at most N - K and is the number of items the batch
\* added to the wardrobe through onBatchItem.
C8_BatchCountMatches ==
  \A q \in Batches :
    procs[q].completeCalls > 0 =>
      /\ procs[q].reported <= Len(procs[q].files) - NonImages(procs[q])
      /\ procs[q].reported = Cardinality(AddedIds(procs[q]))
      /\ \A id \in AddedIds(procs[q]) : \E it \in Range(items) : it.id = id

\* a finished batch with a file that is no image and an item added
C8_Witness ==
  \E q \in Batches :
    /\ procs[q].completeCalls = 1
    /\ NonImages(procs[q]) = 1
    /\ procs[q].reported = 1
    /\ Len(items) = 1

\* every file of a batch is visited once, in order, whatever failed, and
\* onBatchComplete is called once, when the loop is through
BatchVisitsAll ==
  \A q \in Batches :
    /\ \A j \in DOMAIN procs[q].visited : procs[q].visited[j] = j
    /\ procs[q].pc \in {"timer", "done"} =>
         Len(procs[q].visited) = Len(procs[q].files)
    /\ procs[q].completeCalls = IF procs[q].pc = "done" THEN 1 ELSE 0

\* batch q leaves its loop in this step
BatchLoopEnds(q) ==
  /\ q \in DOMAIN procs'
  /\ procs'[q].kind = "batch"
  /\ procs'[q].pc = "timer"
  /\ (q \in DOMAIN procs => procs[q].pc # "timer")

BatchCompletes(q) ==
  (q \in DOMAIN procs /\ procs[q].kind = "batch")
    ~> (q \in DOMAIN procs /\ procs[q].completeCalls = 1)

\* C9 as stated: a batch never aborts. Whatever files fail to be read or
\* classified, every one of the N files is visited once in order, the
\* progress counter reaches N, and onBatchComplete is eventually called
\* exactly once.
C9_BatchNeverAborts ==
  /\ []BatchVisitsAll
  /\ [][\A q \in 1..MaxUploads :
          BatchLoopEnds(q) => uploader'.batchProgress = Len(procs'[q].files)]_vars
  /\ \A q \in 1..MaxUploads : BatchCompletes(q)

\* C9, amended: as above, the progress counter reaching N as long as the
\* uploader that started the batch is still mounted when the loop ends.
C9_BatchNeverAbortsWhileMounted ==
  /\ []BatchVisitsAll
  /\ [][\A q \in 1..MaxUploads :
          BatchLoopEnds(q) /\ procs'[q].live =>
            uploader'.batchProgress = Len(procs'[q].files)]_vars
  /\ \A q \in 1..MaxUploads : BatchCompletes(q)

\* a batch went through a failed read and still finished, in front of its
\* uploader
C9_Witness ==
  \E q \in Batches :
    /\ procs[q].completeCalls = 1
    /\ procs[q].live
    /\ Len(procs[q].files) = MaxFiles
    /\ \E j \in DOMAIN procs[q].outcomes : procs[q].outcomes[j] = "readfail"
    /\ procs[q].successCount = 1

\* C10: in a batch, a file whose AI classification failed is a non-success:
\* no item is committed for it and it is not part of the reported count.
C10_FailedClassificationNotCommitted ==
  \A q \in Batches :
    /\ \A j \in DOMAIN procs[q].outcomes :
         procs[q].outcomes[j] = "aifail" => procs[q].added[j] = 0
    /\ procs[q].completeCalls > 0 =>
         procs[q].reported =
           Cardinality({j \in DOMAIN procs[q].outcomes :
                          procs[q].outcomes[j] = "ok"})

\* C12: a valid save confirmed in planning mode for date d stores the
\* outfit, leaves the schedule with exactly one entry for d, which names the
\* saved outfit, clears planningDate and shows the calendar.
C12_PlanningSaveSchedules ==
  [][(planningDate # NoDate
        /\ lastOp' \in {"confirmSave_create", "confirmSave_update"}) =>
       LET saved == NewOutfit(editingOutfit)
       IN  /\ \E k \in DOMAIN outfits' : outfits'[k] = saved
           /\ Cardinality({k \in DOMAIN schedule' :
                             schedule'[k].date = planningDate}) = 1
           /\ \A k \in DOMAIN schedule' :
                schedule'[k].date = planningDate =>
                  schedule'[k].outfitId = saved.id
           /\ planningDate' = NoDate
           /\ currentView' = "plan"]_vars

\* a second outfit was saved in planning mode and is the one on the calendar
C12_Witness ==
  /\ lastOp = "confirmSave_create"
  /\ currentView = "plan"
  /\ Len(outfits) = 2
  /\ Len(schedule) = 1
  /\ schedule[1].outfitId = outfits[1].id

ItemIds(list) == {list[k].id : k \in DOMAIN list}

\* upload q gets its classification in this step
Classified(q) ==
  /\ q \in DOMAIN procs
  /\ procs[q].pc = "analyze"
  /\ Len(procs'[q].visited) > Len(procs[q].visited)

\* the ids of the items built by single-image uploads
SingleIds == UNION {AddedIds(procs[q]) : q \in DOMAIN procs \ Batches}

\* C13: the item of a single-image upload is only handed to the detail
\* modal: it enters the wardrobe by the modal's save and by nothing else, and
\* dismissing the modal leaves the wardrobe as it is. The item of a batch is
\* in the wardrobe as soon as it is built, and no modal opens for it.
C13_SingleConfirmsBatchCommits ==
  /\ [][\A q \in 1..MaxUploads :
          (Classified(q) /\ procs[q].kind = "single") =>
            /\ items' = items
            /\ selectedItem'.id = nextId.item
            /\ selectedItem'.id \notin ItemIds(items')
            /\ isModalOpen']_vars
  /\ [][\A id \in SingleIds :
          (id \notin ItemIds(items) /\ id \in ItemIds(items')) =>
            (lastOp' = "handleSaveItem" /\ editedItem.id = id)]_vars
  /\ [][(isModalOpen /\ ~isModalOpen' /\ lastOp' # "handleSaveItem") =>
          items' = items]_vars
  /\ [][\A q \in 1..MaxUploads :
          (Classified(q) /\ procs[q].kind = "batch") =>
            /\ Len(items') = Len(items) + 1
            /\ Head(items').id = nextId.item
            /\ Tail(items') = items
            /\ UNCHANGED <<isModalOpen, selectedItem, editedItem>>]_vars

\* a single-image item was dismissed from the modal, and a batch put its
\* item into the wardrobe by itself
C13_Witness ==
  /\ Cardinality(SingleIds) = 1
  /\ SingleIds \cap ItemIds(items) = {}
  /\ ~isModalOpen
  /\ \E q \in Batches : AddedIds(procs[q]) \cap ItemIds(items) # {}

\* request r is rejected in this step
Rejected(r) ==
  /\ r \in DOMAIN requests
  /\ requests[r].state = "pending"
  /\ requests'[r].state = "rejected"

\* C14: a plan request that rejects creates no Trip and leaves what was
\* there: the trip list and the selected trip are unchanged, the wizard
\* keeps its step and its form values, the failure notice is shown and
\* loading ends.
C14_RejectedRequestKeepsState ==
  /\ [](\A r \in DOMAIN requests :
          requests[r].state = "rejected" => requests[r].tripId = 0)
  /\ [][\A r \in 1..MaxRequests :
          Rejected(r) =>
            /\ UNCHANGED <<trips, selectedTrip, isTripModalOpen>>
            /\ planner' = [planner EXCEPT !.isLoading = FALSE]
            /\ requests'[r].failNotice]_vars

\* a request was rejected while a trip of an earlier request is on the list
C14_Witness ==
  /\ Len(trips) = 1
  /\ \E r \in DOMAIN requests :
       /\ requests[r].state = "rejected"
       /\ requests[r].failNotice
       /\ requests[r].timer = "cleared"
  /\ planner.step = 3
  /\ planner.destination = "Rome"

\* C19: each plan request is reported in one way only: a request whose
\* timeout notice was shown never also gets the failure notice, and a
\* request that settles before the 30 s are over never gets the timeout
\* notice.
C19_OneNoticePerRequest ==
  \A r \in DOMAIN requests :
    /\ ~(requests[r].timeoutNotice /\ requests[r].failNotice)
    /\ requests[r].timer = "cleared" => ~requests[r].timeoutNotice

\* C18: the guided tour is one-time: once it has been destroyed, no later
\* operation starts it again, a page reload included.
C18_TourOneTime == tourEnded => tour.status # "active"

\* the outcome of the file an upload has dealt with last
LastOutcome(proc) == proc.outcomes[Len(proc.outcomes)]

\* C20: when the classification call of a single-image upload fails, the
\* caller is still handed an item with category Other, subCategory Unknown,
\* primaryColor Unknown, season All and no tags, and the analysing indicator
\* ends (the indicator of an uploader that is gone has ended with it).
C20_SingleFallbackItem ==
  [][\A q \in 1..MaxUploads :
       (Classified(q) /\ procs[q].kind = "single"
          /\ LastOutcome(procs'[q]) = "aifail") =>
         /\ selectedItem' =
              [id |-> nextId.item, category |-> "Other",
               subCategory |-> "Unknown", primaryColor |-> "Unknown",
               season |-> "All", tags |-> <<>>]
         /\ isModalOpen'
         /\ ~isUploading'
         /\ (procs'[q].live => ~uploader'.isAnalyzing)]_vars

\* the detail modal shows the default item of a failed classification
C20_Witness ==
  /\ \E q \in DOMAIN procs :
       /\ procs[q].kind = "single"
       /\ procs[q].pc = "done"
       /\ procs[q].live
       /\ LastOutcome(procs[q]) = "aifail"
       /\ selectedItem.id \in AddedIds(procs[q])
  /\ ItemModalShown
  /\ editedItem.category = "Other"
  /\ ~uploader.isAnalyzing

\* C15: adding or removing a packing line changes only the buffer of the
\* detail view, not the trip list; the save writes the buffer into the
\* packingList of the trip shown and changes nothing else of it and no other
\* trip; no other step changes a trip, and a detail view entered again, or
\* showing another trip, starts from the saved list with no change pending.
C15_PackingEditsBuffered ==
  [][/\ lastOp' \in {"handleAddItem", "handleRemoveItem"} =>
          trips' = trips /\ selectedTrip' = selectedTrip
     /\ lastOp' = "handleSaveChanges" =>
          /\ Len(trips') = Len(trips)
          /\ \A k \in DOMAIN trips :
               trips'[k] =
                 IF trips[k].id = selectedTrip.id
                 THEN [trips[k] EXCEPT
                         !.packingList = detail.localPackingList]
                 ELSE trips[k]
     /\ lastOp' # "handleSaveChanges" =>
          \A t \in Range(trips), u \in Range(trips') : t.id = u.id => t = u
     /\ (TripDetailShown' /\ (~TripDetailShown
                               \/ selectedTrip'.id # selectedTrip.id)) =>
          /\ detail'.localPackingList = selectedTrip'.packingList
          /\ ~detail'.hasChanges]_vars

\* an edited packing list has been saved into one of two trips
C15_Witness ==
  /\ lastOp = "handleSaveChanges"
  /\ TripDetailShown
  /\ selectedTrip.packingList # TripPlan.packingList
  /\ selectedTrip \in Range(trips)
  /\ \E t \in Range(trips) :
       t.id # selectedTrip.id /\ t.packingList = TripPlan.packingList

\* the requests a step starts
Issued == {r \in DOMAIN tryons' : r \notin DOMAIN tryons}

\* the image the current result holds for an angle, 0 when it has none
ImageOf(result, angle) ==
  IF angle = "front" THEN result.frontUrl
  ELSE IF angle = "side" THEN result.sideUrl ELSE result.backUrl

\* C11: once the current result holds the side (back) image, pressing that
\* angle starts no generation and the mirror shows the image held; pressing
\* front never starts one; a side or back generation is started only while
\* the result has no image for that angle.
C11_CachedAngleNoRequest ==
  [][/\ \A angle \in Angles :
          (handleChangeView(angle) /\ HasImage(fitting.result, angle)) =>
            /\ tryons' = tryons
            /\ fitting'.activeView = angle
            /\ currentImage(fitting') = ImageOf(fitting.result, angle)
            /\ currentImage(fitting') # 0
     /\ \A r \in Issued :
          tryons'[r].kind \in {"side", "back"} =>
            ImageOf(fitting.result, tryons'[r].kind) = 0]_vars

\* both angles are held and the side button has just brought back the side
\* image, with nothing being generated
C11_Witness ==
  /\ FittingRoomShown
  /\ lastOp = "handleChangeView"
  /\ fitting.status = "success"
  /\ fitting.activeView = "side"
  /\ fitting.result.sideUrl # 0
  /\ fitting.result.backUrl # 0
  /\ fitting.generatingAngle = "none"
  /\ \A r \in DOMAIN tryons : tryons[r].state \in {"resolved", "rejected"}

\* C16: every generation that fails, of the front image or of an angle,
\* leaves the fitting room in the error state, and Try Again puts the status
\* back to idle.
C16_AnyFailureShowsError ==
  [][/\ \A r \in DOMAIN tryons :
          (/\ tryons[r].live
           /\ tryons[r].state # "rejected"
           /\ tryons'[r].state = "rejected") => fitting'.status = "error"
     /\ TryAgain => fitting'.status = "idle"]_vars

\* a request of the fitting room on the screen is awaiting its image
AnglePending(angle) ==
  \E r \in DOMAIN tryons :
    tryons[r].live /\ tryons[r].kind = angle /\ tryons[r].state = "image"

\* C17: in the success state the side angle is marked as generating exactly
\* while a side request is pending, and the back angle exactly while a back
\* request is pending, whatever the other angle's request does.
C17_AngleMarkedWhilePending ==
  (FittingRoomShown /\ fitting.status = "success") =>
    \A angle \in {"side", "back"} :
      (fitting.generatingAngle = angle) <=> AnglePending(angle)

\* the entries a schedule holds for one date
EntriesOn(s, d) == SelectSeq(s, LAMBDA e : e.date = d)

\* C21: assigning outfit o to date d makes the lookup for d return o, leaves
\* exactly one entry for d and the entries of every other date as they were;
\* removing d deletes d's entries only, and changes nothing when d has none.
C21_AssignAndRemoveOneDate ==
  [][schedule' # schedule =>
       /\ \A d \in Dates : \A o \in Range(outfits) :
            LET entry == [date |-> d, outfitId |-> o.id]
                after == handleUpdateSchedule(schedule, entry)
            IN  /\ EntriesOn(after, d) = <<entry>>
                /\ \A e \in Dates \ {d} :
                     EntriesOn(after, e) = EntriesOn(schedule, e)
                /\ (handleSelectOutfit(o) /\ selectedDateForModal = d) =>
                     /\ schedule' = after
                     /\ getOutfitForDate(d)' = o
       /\ \A d \in Dates :
            LET after == handleRemoveSchedule(schedule, d)
            IN  /\ EntriesOn(after, d) = <<>>
                /\ \A e \in Dates \ {d} :
                     EntriesOn(after, e) = EntriesOn(schedule, e)
                /\ EntriesOn(schedule, d) = <<>> => after = schedule
                /\ handleRemoveOutfit(d) =>
                     /\ schedule' = after
                     /\ getOutfitForDate(d)' = NoOutfit]_vars

\* two days are planned and the calendar is back on its grid
C21_Witness ==
  /\ currentView = "plan"
  /\ selectedDateForModal = NoDate
  /\ Len(schedule) = 2
  /\ schedule[1].date # schedule[2].date
  /\ \A d \in Dates : getOutfitForDate(d).id # 0

\* C22: while the fitting room stays on the screen its status changes only
\* along idle -> processing, processing -> success, processing -> error and
\* error -> idle.
C22_StatusTransitions ==
  [][(/\ currentView = "fitting-room"
      /\ currentView' = "fitting-room"
      /\ fitting'.status # fitting.status) =>
       <<fitting.status, fitting'.status>> \in
         {<<"idle", "processing">>, <<"processing", "success">>,
          <<"processing", "error">>, <<"error", "idle">>}]_vars

\* C23: whenever the try-on status is success, the result has the image of
\* the active view.
C23_ActiveViewHasImage ==
  (FittingRoomShown /\ fitting.status = "success") =>
    currentImage(fitting) # 0

\* C24: planning mode does not outlive the composer: planningDate is set
\* only while the current view is the studio.
C24_PlanningOnlyInStudio ==
  planningDate # NoDate => currentView = "studio"

\* C28: every schedule entry refers to an existing outfit: for each entry of
\* the schedule the outfit list holds an outfit with id = entry.outfitId.
C28_ScheduleRefersToOutfits ==
  \A k \in DOMAIN schedule :
    \E j \in DOMAIN outfits : outfits[j].id = schedule[k].outfitId

\* two outfits are scheduled, one of them by a planning-mode save
C28_Witness ==
  /\ Len(schedule) = 2
  /\ schedule[1].outfitId # schedule[2].outfitId
  /\ lastOp = "confirmSave_create"
  /\ currentView = "plan"

\* C25: the fitting-room view is shown only to a profile that has a face
\* photo: currentView = 'fitting-room' implies userProfile.facePhoto is set.
C25_FittingRoomNeedsFacePhoto ==
  currentView = "fitting-room" =>
    (userProfile # NoProfile /\ userProfile.facePhoto)

\* C26: closing the item detail modal without saving discards the edits:
\* whenever the modal is opened it shows the item that was clicked, as it
\* is stored.
C26_OpenShowsStoredItem ==
  [][(~isModalOpen /\ isModalOpen') =>
       editedItem' = selectedItem']_vars

\* the uploads of the uploader on the screen that await their classification
Classifying ==
  {p \in DOMAIN procs : procs[p].live /\ procs[p].pc = "analyze"}

\* C27: upload operations never overlap: at most one classification request
\* of the uploader is outstanding at any time.
C27_OneClassificationAtATime == Cardinality(Classifying) <= 1

\* C29: every trip of the trip list has a non-empty destination, start date
\* and end date, with startDate <= endDate.
C29_TripsWellFormed ==
  \A k \in DOMAIN trips :
    /\ trips[k].destination # ""
    /\ trips[k].startDate # NoDate
    /\ trips[k].endDate # NoDate
    /\ trips[k].startDate <= trips[k].endDate

\* C30: the selected trip is always a current trip: when selectedTrip is
\* non-null the trip list holds a trip with the same id and the same content.
C30_SelectedTripIsCurrent ==
  selectedTrip.id # 0 => \E k \in DOMAIN trips : trips[k] = selectedTrip

\* a second trip was planned, and the selected one carries a saved packing
\* list
C30_Witness ==
  /\ lastOp = "handleSaveChanges"
  /\ Len(trips) = 2
  /\ selectedTrip.id # 0
  /\ selectedTrip.packingList # TripPlan.packingList
====
